---------------------------- MODULE Spec2Model ----------------------------
(***************************************************************************)
(* A model of the gravity-well game: the per-frame loop (useBlackholeJuggler*)
(* loop), the physics step (updatePhysics), the wave manager, the combo     *)
(* system, the particle system and round construction.                      *)
(*                                                                          *)
(* Units.  TLA+ has no reals, so every quantity is kept as an integer in a  *)
(* unit fine enough for the arithmetic of the code to stay exact on the     *)
(* inputs enumerated here:                                                  *)
(*   times, dt, timers, elapsedTime   milliseconds                          *)
(*   blackholeRadius                  1/100 pixel                           *)
(*   captureProgress                  1/6000  (dt/1200 ms and 0.5*dt exact) *)
(*   particle life                    1/1000                                *)
(*   screenFlash                      1/1000                                *)
(*   comboMultiplier                  1/10                                  *)
(*   positions                        pixels;  velocities  pixels/second    *)
(* Orb motion is integrated with integer division (truncating), which       *)
(* rounds where the code's floating point does not.                         *)
(***************************************************************************)
EXTENDS Integers, Sequences, FiniteSets, TLC

\* ---------------------------------------------------------------- constants
GRAVITY_STRENGTH == 8000000
REPEL_STRENGTH == 10000000
SOFTENING == 3000
DAMPING_PCT == 99
MAX_SPEED == 1000
GRAB_RADIUS == 220
CAPTURE_TIME_MS == 1200
MIN_RADIUS == 30
VICTORY_RADIUS == 999999
GROWTH_PER_ORB == 1
DECAY_RATE == 10
DECAY_DELAY_MS == 1500
WAVE_TRANSITION_MS == 2000
WAVE_DENSITY_BASE == 5
WAVE_DENSITY_INCREMENT == 3
WAVE_MAX_DENSITY == 30
WAVE_REQUIRED_BASE == 10
WAVE_REQUIRED_INCREMENT == 5
WAVE_SPAWN_COOLDOWN == 200
HAND_TIMEOUT == 500
COMBO_WINDOW_MS == 2000
COMBO_MULTIPLIERS == <<10, 10, 15, 20, 25, 30>>
COMBO_GROWTH_BONUS == <<0, 0, 4, 8, 12, 16>>
ORB_RADIUS == 12
BOMB_RADIUS == 16
TRAIL_LENGTH == 15
ANNOUNCE_MS == 3000
DT_CAP_MS == 50
SPAWN_MARGIN == 20
BEST_TIME_DEFAULT == 999999

\* scales of the integer units
RSCALE == 100
PSCALE == 6000
LSCALE == 1000

\* ------------------------------------------------------------ integer helpers
Abs(a) == IF a < 0 THEN -a ELSE a
Min(a, b) == IF a < b THEN a ELSE b
Max(a, b) == IF a > b THEN a ELSE b

\* division truncating toward zero (b > 0)
TDiv(a, b) == IF a >= 0 THEN a \div b ELSE -((-a) \div b)

RECURSIVE SqrtSearch(_, _, _)
SqrtSearch(n, lo, hi) ==
    IF lo >= hi THEN lo
    ELSE LET mid == (lo + hi + 1) \div 2
         IN  IF mid * mid <= n THEN SqrtSearch(n, mid, hi)
             ELSE SqrtSearch(n, lo, mid - 1)

\* floor of the square root (Math.sqrt, rounded down), 0 <= n < 2^30
ISqrt(n) == SqrtSearch(n, 0, 32767)

\* ---------------------------------------------------------------- vector math
\* A vector of numbers, or (nan) a vector that is not: arithmetic on NaN gives
\* NaN, every comparison with NaN is false.
Vec(x, y) == [x |-> x, y |-> y, nan |-> FALSE]
NaNVec == [x |-> 0, y |-> 0, nan |-> TRUE]
vAdd(a, b) == IF a.nan \/ b.nan THEN NaNVec ELSE Vec(a.x + b.x, a.y + b.y)
vSub(a, b) == IF a.nan \/ b.nan THEN NaNVec ELSE Vec(a.x - b.x, a.y - b.y)
\* v * (num/den)
vScale(v, num, den) ==
    IF v.nan THEN NaNVec ELSE Vec(TDiv(v.x * num, den), TDiv(v.y * num, den))
vLenSq(v) == v.x * v.x + v.y * v.y
vLen(v) == ISqrt(vLenSq(v))
\* vScale(vNorm(d), s): the unit vector of d times s, the zero vector for d = 0;
\* for d NaN, vNorm gives the zero vector (len > 0 is false) and s, computed
\* from d, is NaN
vNormScaled(d, s) ==
    LET len == vLen(d)
    IN  IF d.nan THEN NaNVec
        ELSE IF len > 0 THEN Vec(TDiv(d.x * s, len), TDiv(d.y * s, len)) ELSE Vec(0, 0)

\* dist < blackholeRadius * 0.9, exactly, for distSq the squared distance in
\* pixels^2 and r the radius in 1/RSCALE pixel:
\* sqrt(distSq) < 9r/1000  <=>  distSq < k^2 + (2000kf + f^2)/10^6, 9r = 1000k + f
InsideAbsorb(distSq, r) ==
    LET a == 9 * r
        k == a \div 1000
        f == a % 1000
        m == 2000 * k * f + f * f
    IN  distSq - k * k <= (m - 1) \div 1000000

\* ------------------------------------------------------------------ comboSystem
ComboTier(c, table) == Min(c, Len(table) - 1)

getComboGrowthBonus(comboCount) ==
    COMBO_GROWTH_BONUS[ComboTier(comboCount, COMBO_GROWTH_BONUS) + 1]

onOrbAbsorbedClamped(s, orb, now) ==
    LET timeSinceLast == now - s.lastComboTime
        comboCount ==
            IF s.lastComboTime = 0 \/ timeSinceLast <= COMBO_WINDOW_MS
            THEN s.comboCount + (IF orb.orbType = "BOMB" THEN 2 ELSE 1)
            ELSE 1
        cappedCombo == ComboTier(comboCount, COMBO_MULTIPLIERS)
    IN  [s EXCEPT !.comboCount = cappedCombo,
                  !.comboMultiplier = COMBO_MULTIPLIERS[cappedCombo + 1],
                  !.lastComboTime = now,
                  !.comboTimerRemaining = COMBO_WINDOW_MS]

onOrbAbsorbed(s, orb, now) ==
    LET timeSinceLast == now - s.lastComboTime
        comboCount ==
            IF s.lastComboTime = 0 \/ timeSinceLast <= COMBO_WINDOW_MS
            THEN s.comboCount + (IF orb.orbType = "BOMB" THEN 2 ELSE 1)
            ELSE 1
    IN  [s EXCEPT !.comboCount = comboCount,
                  !.comboMultiplier =
                      COMBO_MULTIPLIERS[ComboTier(comboCount, COMBO_MULTIPLIERS) + 1],
                  !.lastComboTime = now,
                  !.comboTimerRemaining = COMBO_WINDOW_MS]

updateComboTimerUnfloored(s, dt) ==
    IF s.comboCount = 0 THEN s
    ELSE [s EXCEPT !.comboTimerRemaining = @ - dt,
                   !.comboCount = IF s.comboTimerRemaining - dt <= 0 THEN 0 ELSE @,
                   !.comboMultiplier = IF s.comboTimerRemaining - dt <= 0 THEN 10 ELSE @]

updateComboTimer(s, dt) ==
    IF s.comboCount = 0 THEN s
    ELSE LET newTimer == s.comboTimerRemaining - dt
         IN  IF newTimer <= 0
             THEN [s EXCEPT !.comboCount = 0,
                            !.comboMultiplier = COMBO_MULTIPLIERS[1],
                            !.comboTimerRemaining = 0]
             ELSE [s EXCEPT !.comboTimerRemaining = newTimer]

\* ------------------------------------------------------------------ waveManager
getWaveConfigCapped(wave) ==
    [targetDensity |-> Min(WAVE_DENSITY_BASE + (wave - 1) * WAVE_DENSITY_INCREMENT,
                           WAVE_MAX_DENSITY),
     orbsRequired |-> Min(WAVE_REQUIRED_BASE + (wave - 1) * WAVE_REQUIRED_INCREMENT,
                          5 * WAVE_REQUIRED_BASE),
     bombChance |-> Min(15 + (wave - 1) * 5, 50)]

getWaveConfig(wave) ==
    [targetDensity |->
         Min(WAVE_DENSITY_BASE + (wave - 1) * WAVE_DENSITY_INCREMENT, WAVE_MAX_DENSITY),
     orbsRequired |-> WAVE_REQUIRED_BASE + (wave - 1) * WAVE_REQUIRED_INCREMENT,
     \* bombChance in percent: min(0.15 + (wave-1)*0.05, 0.50)
     bombChance |-> Min(15 + (wave - 1) * 5, 50)]

\* 1. the announcement overlay timer
WaveTimerStep(s, dt) ==
    IF s.waveTransitionTimer > 0
    THEN LET t == s.waveTransitionTimer - dt
         IN  [s EXCEPT !.waveTransitionTimer = t,
                       !.wavePhase = IF t <= 0 THEN "PLAYING" ELSE @]
    ELSE s

LevelUpStepCarryingSurplus(s) ==
    IF s.orbsAbsorbedInWave >= s.orbsRequiredForLevel
    THEN [s EXCEPT !.currentWave = @ + 1,
                   !.orbsAbsorbedInWave = @ - s.orbsRequiredForLevel,
                   !.orbsRequiredForLevel = getWaveConfig(s.currentWave + 1).orbsRequired,
                   !.wavePhase = "ANNOUNCEMENT",
                   !.waveTransitionTimer = ANNOUNCE_MS]
    ELSE s

\* 2. the level-up check
LevelUpStep(s) ==
    IF s.orbsAbsorbedInWave >= s.orbsRequiredForLevel
    THEN [s EXCEPT !.currentWave = @ + 1,
                   !.orbsAbsorbedInWave = 0,
                   !.orbsRequiredForLevel = getWaveConfig(s.currentWave + 1).orbsRequired,
                   !.wavePhase = "ANNOUNCEMENT",
                   !.waveTransitionTimer = ANNOUNCE_MS]
    ELSE s

updateWaveState(s, dt) == LevelUpStep(WaveTimerStep(s, dt))

\* --------------------------------------------------------------- particleSystem
\* The particles of one burst are drawn alike here (direction along +x, one speed
\* and one maxLife from the draws) and so stay alike: the array keeps them as one
\* entry, the particle with its count n.
createBurst(pos, count, draw) ==
    <<[n |-> count, pos |-> pos, vel |-> Vec(draw.pspeed, 0), life |-> LSCALE,
       maxLife |-> draw.maxLife]>>

\* p.life -= dt / p.maxLife
AgeParticle(p, dt) == [p EXCEPT !.life = @ - (dt * LSCALE) \div p.maxLife]

\* the body of the loop for one particle: the object is changed in place
MutateParticle(p, dt) ==
    LET q == AgeParticle(p, dt)
    IN  IF q.life > 0
        THEN [q EXCEPT !.pos = vAdd(q.pos, vScale(q.vel, dt, 1000)),
                       !.vel = vScale(q.vel, 95, 100)]
        ELSE q

\* the input array after the call: same length, every element changed in place
MutatedParticles(particles, dt) ==
    [i \in 1..Len(particles) |-> MutateParticle(particles[i], dt)]

\* the array returned: the changed elements that are still alive
updateParticles(particles, dt) ==
    SelectSeq(MutatedParticles(particles, dt), LAMBDA p : p.life > 0)

\* ------------------------------------------------------------------------ state
createOrb(x, y, orbType, id) ==
    [id |-> id,
     pos |-> Vec(x, y),
     vel |-> Vec(0, 0),
     radius |-> IF orbType = "BOMB" THEN BOMB_RADIUS ELSE ORB_RADIUS,
     trail |-> << >>,
     status |-> "WILD",
     captureProgress |-> 0,
     orbType |-> orbType]

\* localStorage.getItem('blackhole_juggler_best_time') || '999999'
\* (stored < 0: the key is absent)
ReadBestTime(stored) == IF stored < 0 THEN BEST_TIME_DEFAULT * 1000 ELSE stored

createInitialState(width, height, stored) ==
    [phase |-> "INIT",
     hole |-> [pos |-> Vec(width \div 2, height \div 2), mode |-> "ATTRACT"],
     orbs |-> << >>,
     particles |-> << >>,
     screenFlash |-> 0,
     blackholeRadius |-> MIN_RADIUS * RSCALE,
     lastAbsorbTime |-> 0,
     elapsedTime |-> 0,
     startTime |-> 0,
     currentWave |-> 1,
     orbsRequiredForLevel |-> WAVE_REQUIRED_BASE,
     orbsAbsorbedInWave |-> 0,
     orbsSpawnedInWave |-> 0,
     wavePhase |-> "ANNOUNCEMENT",
     waveTransitionTimer |-> WAVE_TRANSITION_MS,
     comboCount |-> 0,
     comboMultiplier |-> COMBO_MULTIPLIERS[1],
     lastComboTime |-> 0,
     comboTimerRemaining |-> 0,
     bestScore |-> ReadBestTime(stored),
     deathReason |-> "NONE"]

resetRound(width, height, stored, now) ==
    [createInitialState(width, height, stored) EXCEPT
        !.phase = "PLAYING",
        !.startTime = now,
        !.wavePhase = "ANNOUNCEMENT",
        !.waveTransitionTimer = WAVE_TRANSITION_MS]

\* ---------------------------------------------------------------------- physics
\* One call of updatePhysics reads, besides the snapshot s:
\*   c.dt, c.width, c.height   its arguments
\*   c.now                     performance.now() at its start
\*   c.absorbNow               performance.now() as onOrbAbsorbed reads it (>= c.now)
\*   c.lastSpawnTime           the module-level lastSpawnTime
\*   c.rnd                     the Math.random() draws: edge, frac (percent along
\*                             the edge), roll (percent, against bombChance), spd,
\*                             pspeed and maxLife (particle bursts); the aim jitter
\*                             draw is 0.5 (no jitter)
\*   c.id                      the token createOrb draws

\* dist < GRAB_RADIUS
InGrabRadius(distSq) == distSq < GRAB_RADIUS * GRAB_RADIUS

TamingUnclamped(orb, isPinching, distSq, dt) ==
    IF ~isPinching /\ InGrabRadius(distSq)
    THEN LET p == orb.captureProgress + (dt * PSCALE) \div CAPTURE_TIME_MS
         IN  IF p >= PSCALE THEN [status |-> "GOLD", captureProgress |-> p]
             ELSE [status |-> "CAPTURING", captureProgress |-> p]
    ELSE IF isPinching THEN [status |-> "WILD", captureProgress |-> 0]
    ELSE IF orb.status = "CAPTURING"
    THEN LET p == orb.captureProgress - (dt * PSCALE) \div 2000
         IN  IF p <= 0 THEN [status |-> "WILD", captureProgress |-> 0]
             ELSE [status |-> "CAPTURING", captureProgress |-> p]
    ELSE [status |-> orb.status, captureProgress |-> orb.captureProgress]

\* 3. TAMING MECHANIC: status and captureProgress after the tick
Taming(orb, isPinching, distSq, dt) ==
    IF ~isPinching /\ InGrabRadius(distSq)
    THEN LET p == orb.captureProgress + (dt * PSCALE) \div CAPTURE_TIME_MS
         IN  IF p >= PSCALE THEN [status |-> "GOLD", captureProgress |-> PSCALE]
             ELSE [status |-> "CAPTURING", captureProgress |-> p]
    ELSE IF isPinching THEN [status |-> "WILD", captureProgress |-> 0]
    ELSE IF orb.status = "CAPTURING"
    THEN LET p == orb.captureProgress - (dt * PSCALE) \div 2000
         IN  IF p <= 0 THEN [status |-> "WILD", captureProgress |-> 0]
             ELSE [status |-> "CAPTURING", captureProgress |-> p]
    ELSE [status |-> orb.status, captureProgress |-> orb.captureProgress]

\* 2. BATTING / GRAVITY ENGINE: the acceleration toward (or away from) the well
Gravity(d, distSq, isPinching) ==
    LET forceMagnitude == IF isPinching THEN -REPEL_STRENGTH ELSE GRAVITY_STRENGTH
        force == TDiv(forceMagnitude, distSq + SOFTENING)
    IN  vNormScaled(d, force)

\* friction, acceleration and the speed limit
NextVelocity(vel, accel, dt) ==
    LET v1 == vAdd(vScale(vel, DAMPING_PCT, 100), vScale(accel, dt, 1000))
        speedSq == vLenSq(v1)
    IN  IF speedSq > MAX_SPEED * MAX_SPEED
        THEN vScale(v1, MAX_SPEED, ISqrt(speedSq))
        ELSE v1

BounceKeepingSpeed(p, v, radius, extent) ==
    IF p < radius THEN <<radius, v>>
    ELSE IF p > extent - radius THEN <<extent - radius, v>>
    ELSE <<p, v>>

\* ORB WALL BOUNCE on one axis: <<position, velocity>>
Bounce(p, v, radius, extent) ==
    IF p < radius THEN <<radius, TDiv(Abs(v) * 8, 10)>>
    ELSE IF p > extent - radius THEN <<extent - radius, -TDiv(Abs(v) * 8, 10)>>
    ELSE <<p, v>>

\* an orb that is not absorbed this tick: taming, integration, bounce, trail
MoveOrb(orb, hole, c) ==
    LET isPinching == hole.mode = "REPEL"
        d == vSub(hole.pos, orb.pos)
        distSq == vLenSq(d)
        \* dist < GRAB_RADIUS is false for a NaN distance
        tame == Taming(orb, isPinching,
                       IF d.nan THEN GRAB_RADIUS * GRAB_RADIUS ELSE distSq, c.dt)
        vel == NextVelocity(orb.vel, Gravity(d, distSq, isPinching), c.dt)
        raw == vAdd(orb.pos, vScale(vel, c.dt, 1000))
        bx == Bounce(raw.x, vel.x, orb.radius, c.width)
        by == Bounce(raw.y, vel.y, orb.radius, c.height)
        \* no wall test is true of a NaN position
        nextPos == IF raw.nan THEN NaNVec ELSE Vec(bx[1], by[1])
        trail == Append(orb.trail, nextPos)
    IN  [orb EXCEPT !.pos = nextPos,
                    !.vel = IF raw.nan THEN vel ELSE Vec(bx[2], by[2]),
                    !.trail = IF Len(trail) > TRAIL_LENGTH THEN Tail(trail) ELSE trail,
                    !.status = tame.status,
                    !.captureProgress = tame.captureProgress]

IsAbsorbedWhenAttracting(orb, hole, radius) ==
    /\ hole.mode = "ATTRACT"
    /\ orb.status = "GOLD"
    /\ ~vSub(hole.pos, orb.pos).nan
    /\ InsideAbsorb(vLenSq(vSub(hole.pos, orb.pos)), radius)

IsAbsorbedAnyStatus(orb, hole, radius) ==
    /\ ~vSub(hole.pos, orb.pos).nan
    /\ InsideAbsorb(vLenSq(vSub(hole.pos, orb.pos)), radius)

\* status GOLD and dist < blackholeRadius * 0.9, for the radius as it stands
IsAbsorbed(orb, hole, radius) ==
    /\ orb.status = "GOLD"
    /\ ~vSub(hole.pos, orb.pos).nan
    /\ InsideAbsorb(vLenSq(vSub(hole.pos, orb.pos)), radius)

LoopStartPulsing(ns, particles, screenFlash) ==
    [ns |-> ns,
     blackholeRadius |-> ns.blackholeRadius + (IF particles # << >> THEN RSCALE ELSE 0),
     lastAbsorbTime |-> ns.lastAbsorbTime,
     orbsAbsorbedInWave |-> ns.orbsAbsorbedInWave,
     nextOrbs |-> << >>,
     nextParticles |-> particles,
     screenFlash |-> screenFlash,
     absorbedIds |-> << >>,
     bomb |-> FALSE]

\* The locals of the orb loop.  bomb: the loop returned at the BOMB DEATH CHECK.
LoopStart(ns, particles, screenFlash) ==
    [ns |-> ns,
     blackholeRadius |-> ns.blackholeRadius,
     lastAbsorbTime |-> ns.lastAbsorbTime,
     orbsAbsorbedInWave |-> ns.orbsAbsorbedInWave,
     nextOrbs |-> << >>,
     nextParticles |-> particles,
     screenFlash |-> screenFlash,
     absorbedIds |-> << >>,
     bomb |-> FALSE]

OrbStepComboShield(a, orb, c) ==
    IF IsAbsorbed(orb, a.ns.hole, a.blackholeRadius)
    THEN IF orb.orbType = "BOMB" /\ a.ns.comboCount = 0
         THEN [a EXCEPT !.bomb = TRUE]
         ELSE [a EXCEPT !.ns = onOrbAbsorbed(a.ns, orb, c.absorbNow),
                        !.blackholeRadius = @ + GROWTH_PER_ORB * RSCALE,
                        !.lastAbsorbTime = c.now,
                        !.orbsAbsorbedInWave = @ + 1,
                        !.absorbedIds = Append(@, orb.id)]
    ELSE [a EXCEPT !.nextOrbs = Append(@, MoveOrb(orb, a.ns.hole, c))]

\* the loop body for one orb
OrbStep(a, orb, c) ==
    IF IsAbsorbed(orb, a.ns.hole, a.blackholeRadius)
    THEN LET grown == a.blackholeRadius
                      + (GROWTH_PER_ORB + getComboGrowthBonus(a.ns.comboCount)) * RSCALE
         IN  IF orb.orbType = "BOMB"
             THEN [a EXCEPT !.bomb = TRUE]
             ELSE LET ns2 == onOrbAbsorbed(a.ns, orb, c.absorbNow)
                  IN  [a EXCEPT !.ns = ns2,
                                !.blackholeRadius = grown,
                                !.lastAbsorbTime = c.now,
                                !.orbsAbsorbedInWave = @ + 1,
                                !.nextParticles =
                                    @ \o createBurst(orb.pos, 15 + ns2.comboCount * 5, c.rnd),
                                !.screenFlash = IF ns2.comboCount >= 5 THEN 500 ELSE @,
                                !.absorbedIds = Append(@, orb.id)]
    ELSE [a EXCEPT !.nextOrbs = Append(@, MoveOrb(orb, a.ns.hole, c))]

\* for (const orb of nextState.orbs), from orb i on
RECURSIVE OrbLoop(_, _, _, _)
OrbLoop(a, orbs, i, c) ==
    IF i > Len(orbs) \/ a.bomb THEN a
    ELSE OrbLoop(OrbStep(a, orbs[i], c), orbs, i + 1, c)

DecayUnclamped(radius, lastAbsorbTime, c) ==
    IF lastAbsorbTime > 0 /\ c.now - lastAbsorbTime > DECAY_DELAY_MS
    THEN radius - (DECAY_RATE * c.dt * RSCALE) \div 1000
    ELSE radius

DecayAtDelay(radius, lastAbsorbTime, c) ==
    IF lastAbsorbTime > 0 /\ c.now - lastAbsorbTime >= DECAY_DELAY_MS
    THEN Max(MIN_RADIUS * RSCALE, radius - (DECAY_RATE * c.dt * RSCALE) \div 1000)
    ELSE radius

\* DECAY LOGIC
Decay(radius, lastAbsorbTime, c) ==
    IF lastAbsorbTime > 0 /\ c.now - lastAbsorbTime > DECAY_DELAY_MS
    THEN Max(MIN_RADIUS * RSCALE, radius - (DECAY_RATE * c.dt * RSCALE) \div 1000)
    ELSE radius

SpawnDueAtTarget(nextOrbs, wave, c) ==
    /\ Cardinality({i \in 1..Len(nextOrbs) : nextOrbs[i].orbType = "NORMAL"})
           <= getWaveConfig(wave).targetDensity
    /\ c.now - c.lastSpawnTime > WAVE_SPAWN_COOLDOWN

SpawnDueCountingBombs(nextOrbs, wave, c) ==
    /\ Len(nextOrbs) < getWaveConfig(wave).targetDensity
    /\ c.now - c.lastSpawnTime > WAVE_SPAWN_COOLDOWN

\* WAVE SPAWNING: whether this tick spawns
SpawnDue(nextOrbs, wave, c) ==
    /\ Cardinality({i \in 1..Len(nextOrbs) : nextOrbs[i].orbType = "NORMAL"})
           < getWaveConfig(wave).targetDensity
    /\ c.now - c.lastSpawnTime > WAVE_SPAWN_COOLDOWN

\* the point on the boundary the draws choose
SpawnPoint(c) ==
    LET alongX == SPAWN_MARGIN + (c.rnd.frac * (c.width - 2 * SPAWN_MARGIN)) \div 100
        alongY == SPAWN_MARGIN + (c.rnd.frac * (c.height - 2 * SPAWN_MARGIN)) \div 100
    IN  CASE c.rnd.edge = 0 -> Vec(alongX, SPAWN_MARGIN)
          [] c.rnd.edge = 1 -> Vec(alongX, c.height - SPAWN_MARGIN)
          [] c.rnd.edge = 2 -> Vec(SPAWN_MARGIN, alongY)
          [] OTHER -> Vec(c.width - SPAWN_MARGIN, alongY)

\* the new orb, aimed at the centre
SpawnOrb(wave, c) ==
    LET at == SpawnPoint(c)
        isBomb == c.rnd.roll < getWaveConfig(wave).bombChance
        newOrb == createOrb(at.x, at.y, IF isBomb THEN "BOMB" ELSE "NORMAL", c.id)
        toCenter == vSub(Vec(c.width \div 2, c.height \div 2), newOrb.pos)
    IN  [newOrb EXCEPT !.vel = vNormScaled(toCenter, c.rnd.spd)]

holeEdgeHitsFarWall(hole, radius, c) ==
    /\ ~hole.pos.nan
    /\ \/ hole.pos.x * RSCALE + radius > c.width * RSCALE
       \/ hole.pos.y * RSCALE + radius > c.height * RSCALE

\* GAME OVER CHECK
holeEdgeHitsWall(hole, radius, c) ==
    /\ ~hole.pos.nan
    /\ \/ hole.pos.x * RSCALE - radius < 0
       \/ hole.pos.x * RSCALE + radius > c.width * RSCALE
       \/ hole.pos.y * RSCALE - radius < 0
       \/ hole.pos.y * RSCALE + radius > c.height * RSCALE

\* screenFlash > 0 ? max(0, screenFlash - dt * 2) : 0
FlashDecay(screenFlash, dt) ==
    IF screenFlash > 0 THEN Max(0, screenFlash - 2 * dt) ELSE 0

\* the state before the orb loop: wave state, combo timer, and the particle
\* array as updateParticles leaves it (changed in place)
BeforeLoop(s, c) ==
    [updateComboTimer(updateWaveState(s, c.dt), c.dt) EXCEPT
        !.particles = MutatedParticles(s.particles, c.dt)]

BombReturnResettingCombo(ns) ==
    [ns EXCEPT !.phase = "RESULT", !.deathReason = "BOMB", !.comboCount = 0]

\* return { ...nextState, phase: 'RESULT', deathReason: 'BOMB' }
BombReturn(ns) == [ns EXCEPT !.phase = "RESULT", !.deathReason = "BOMB"]

FinalReturnWithVictory(a, c) ==
    LET radius == Decay(a.blackholeRadius, a.lastAbsorbTime, c)
        spawn == SpawnDue(a.nextOrbs, a.ns.currentWave, c)
        hit == holeEdgeHitsWall(a.ns.hole, radius, c)
        won == radius >= VICTORY_RADIUS * RSCALE
    IN  [a.ns EXCEPT
            !.orbs = IF spawn THEN Append(a.nextOrbs, SpawnOrb(a.ns.currentWave, c))
                     ELSE a.nextOrbs,
            !.orbsSpawnedInWave = IF spawn THEN @ + 1 ELSE @,
            !.particles = a.nextParticles,
            !.screenFlash = a.screenFlash,
            !.blackholeRadius = radius,
            !.lastAbsorbTime = a.lastAbsorbTime,
            !.orbsAbsorbedInWave = a.orbsAbsorbedInWave,
            !.deathReason = IF hit /\ ~won THEN "WALL" ELSE @,
            !.phase = IF won THEN "VICTORY" ELSE IF hit THEN "RESULT" ELSE @,
            !.elapsedTime = @ + c.dt]

\* the return at the end of the function
FinalReturn(a, c) ==
    LET radius == Decay(a.blackholeRadius, a.lastAbsorbTime, c)
        spawn == SpawnDue(a.nextOrbs, a.ns.currentWave, c)
        hit == holeEdgeHitsWall(a.ns.hole, radius, c)
    IN  [a.ns EXCEPT
            !.orbs = IF spawn THEN Append(a.nextOrbs, SpawnOrb(a.ns.currentWave, c))
                     ELSE a.nextOrbs,
            !.orbsSpawnedInWave = IF spawn THEN @ + 1 ELSE @,
            !.particles = a.nextParticles,
            !.screenFlash = a.screenFlash,
            !.blackholeRadius = radius,
            !.lastAbsorbTime = a.lastAbsorbTime,
            !.orbsAbsorbedInWave = a.orbsAbsorbedInWave,
            !.deathReason = IF hit THEN "WALL" ELSE @,
            !.phase = IF hit THEN "RESULT" ELSE @,
            !.elapsedTime = @ + c.dt]

\* the locals when the orb loop ends
LoopEnd(s, c) ==
    LET ns == BeforeLoop(s, c)
    IN  OrbLoop(LoopStart(ns, updateParticles(s.particles, c.dt),
                          FlashDecay(ns.screenFlash, c.dt)),
                ns.orbs, 1, c)

\* one call in phase PLAYING: the snapshot returned, whether an orb was spawned,
\* and lastSpawnTime after it
PlayingCall(s, c) ==
    LET a == LoopEnd(s, c)
        spawn == ~a.bomb /\ SpawnDue(a.nextOrbs, a.ns.currentWave, c)
    IN  [state |-> IF a.bomb THEN BombReturn(a.ns) ELSE FinalReturn(a, c),
         spawned |-> spawn,
         lastSpawnTime |-> IF spawn THEN c.now ELSE c.lastSpawnTime]

Untouched(s, c) == [state |-> s, spawned |-> FALSE, lastSpawnTime |-> c.lastSpawnTime]

PhysicsCallSteppingResult(s, c) ==
    IF s.phase \notin {"PLAYING", "RESULT"} THEN Untouched(s, c) ELSE PlayingCall(s, c)

\* if (state.phase !== 'PLAYING') return state
PhysicsCall(s, c) ==
    IF s.phase # "PLAYING" THEN Untouched(s, c) ELSE PlayingCall(s, c)

updatePhysics(s, c) == PhysicsCall(s, c).state

\* -------------------------------------------------------------------- handInput
\* The module state of handInput: lastCursor (has = FALSE: null), isPinched,
\* lastHandTime.  One call reads the detector's answer h:
\*   h.kind    "notReady" (no detector, video not ready, or estimateHands threw),
\*             "noHands" (an empty answer) or "hand"
\*   h.target  the index-finger tip mapped to the canvas and scaled about its centre
\*   h.ratio   pinch distance / hand size, in percent
PINCH_ON_PCT == 35
PINCH_OFF_PCT == 60

\* 2. Smooth Cursor
SmoothCursor(cur, target) ==
    IF ~cur.has THEN [has |-> TRUE, pos |-> target]
    ELSE [has |-> TRUE,
          pos |-> IF cur.pos.nan \/ target.nan THEN NaNVec
                  ELSE Vec(TDiv(cur.pos.x * 3 + target.x, 4),
                           TDiv(cur.pos.y * 3 + target.y, 4))]

\* 3. Adaptive Pinch Detection
PinchAfter(pinched, ratio) ==
    IF ~pinched /\ ratio < PINCH_ON_PCT THEN TRUE
    ELSE IF pinched /\ ratio > PINCH_OFF_PCT THEN FALSE
    ELSE pinched

\* the module state after the call
HandStateAfter(hs, h, now) ==
    IF h.kind = "hand"
    THEN [cursor |-> SmoothCursor(hs.cursor, h.target),
          pinched |-> PinchAfter(hs.pinched, h.ratio),
          lastHandTime |-> now]
    ELSE IF h.kind = "malformed"
    \* the index fingertip is NaN: targetX, targetY and the pinch ratio are NaN,
    \* neither pinch test is true
    THEN [cursor |-> SmoothCursor(hs.cursor, NaNVec),
          pinched |-> hs.pinched,
          lastHandTime |-> now]
    ELSE hs

\* the HandInput returned
updateHandInput(hs, h, now) ==
    CASE h.kind = "notReady" ->
             [hasHand |-> FALSE, cursor |-> hs.cursor, isPinched |-> hs.pinched]
      [] h.kind = "noHands" ->
             IF now - hs.lastHandTime > HAND_TIMEOUT
             THEN [hasHand |-> FALSE, cursor |-> hs.cursor, isPinched |-> FALSE]
             ELSE [hasHand |-> TRUE, cursor |-> hs.cursor, isPinched |-> hs.pinched]
      [] OTHER ->
             LET after == HandStateAfter(hs, h, now)
             IN  [hasHand |-> TRUE, cursor |-> after.cursor, isPinched |-> after.pinched]

\* ------------------------------------------------------------------------- loop
FrameDtUncapped(time, lastTime) == time - lastTime

\* if (dt > 0.05) dt = 0.05
FrameDt(time, lastTime) == Min(time - lastTime, DT_CAP_MS)

HandMergeStickyMode(s, hand, width, height, stored, now) ==
    IF ~hand.hasHand THEN s
    ELSE LET s1 == [s EXCEPT !.phase = IF @ = "INIT" THEN "START" ELSE @,
                             !.hole.pos = IF hand.cursor.has THEN hand.cursor.pos ELSE @,
                             !.hole.mode = IF hand.isPinched THEN "REPEL" ELSE @]
         IN  IF s1.phase = "START" /\ hand.isPinched
             THEN resetRound(width, height, stored, now)
             ELSE IF s1.phase \in {"RESULT", "VICTORY"} /\ hand.isPinched
             THEN [createInitialState(width, height, stored) EXCEPT
                      !.phase = "START", !.bestScore = s1.bestScore]
             ELSE s1

HandMergeKeepingWell(s, hand, width, height, stored, now) ==
    IF ~hand.hasHand THEN s
    ELSE LET s1 == [s EXCEPT !.phase = IF @ = "INIT" THEN "START" ELSE @,
                             !.hole.pos = IF hand.cursor.has THEN hand.cursor.pos ELSE @,
                             !.hole.mode = IF hand.isPinched THEN "REPEL" ELSE "ATTRACT"]
         IN  IF s1.phase = "START" /\ hand.isPinched
             THEN resetRound(width, height, stored, now)
             ELSE IF s1.phase \in {"RESULT", "VICTORY"} /\ hand.isPinched
             THEN [createInitialState(width, height, stored) EXCEPT
                      !.phase = "START", !.bestScore = s1.bestScore, !.hole = s1.hole]
             ELSE s1

HandMergeKeepingDeathReason(s, hand, width, height, stored, now) ==
    IF ~hand.hasHand THEN s
    ELSE LET s1 == [s EXCEPT !.phase = IF @ = "INIT" THEN "START" ELSE @,
                             !.hole.pos = IF hand.cursor.has THEN hand.cursor.pos ELSE @,
                             !.hole.mode = IF hand.isPinched THEN "REPEL" ELSE "ATTRACT"]
         IN  IF s1.phase = "START" /\ hand.isPinched
             THEN resetRound(width, height, stored, now)
             ELSE IF s1.phase \in {"RESULT", "VICTORY"} /\ hand.isPinched
             THEN [createInitialState(width, height, stored) EXCEPT
                      !.phase = "START", !.bestScore = s1.bestScore,
                      !.deathReason = s1.deathReason]
             ELSE s1

\* "Handle Hand Interaction": the state handed to updatePhysics
HandMerge(s, hand, width, height, stored, now) ==
    IF ~hand.hasHand THEN s
    ELSE LET s1 == [s EXCEPT !.phase = IF @ = "INIT" THEN "START" ELSE @,
                             !.hole.pos = IF hand.cursor.has THEN hand.cursor.pos ELSE @,
                             !.hole.mode = IF hand.isPinched THEN "REPEL" ELSE "ATTRACT"]
         IN  IF s1.phase = "START" /\ hand.isPinched
             THEN resetRound(width, height, stored, now)
             ELSE IF s1.phase \in {"RESULT", "VICTORY"} /\ hand.isPinched
             THEN [createInitialState(width, height, stored) EXCEPT
                      !.phase = "START", !.bestScore = s1.bestScore]
             ELSE s1

\* "Save best time on VICTORY": <<state, stored value>>
SaveBest(ret, before, stored) ==
    IF ret.phase = "VICTORY" /\ before.phase = "PLAYING"
          /\ ret.elapsedTime < ReadBestTime(stored)
    THEN <<[ret EXCEPT !.bestScore = ret.elapsedTime], ret.elapsedTime>>
    ELSE <<ret, stored>>

\* ------------------------------------------------------------------ the system
VARIABLES
    state,          \* stateRef.current, the published snapshot
    lastTimeRef,    \* lastTimeRef.current
    lastSpawnTime,  \* physics: let lastSpawnTime
    storedBest,     \* localStorage 'blackhole_juggler_best_time' (ms; < 0: absent)
    handState,      \* handInput: lastCursor, isPinched, lastHandTime
    canvas,         \* canvasRef.current.width / height
    nextId,         \* the next fresh orb token
    tick,           \* the last frame: the snapshot before it, the hand sample, the
                    \* snapshot and the inputs handed to updatePhysics, the stored
                    \* best time it found
    frames,         \* frames run so far
    env             \* what the browser and the player may do in this run

vars == <<state, lastTimeRef, lastSpawnTime, storedBest, handState, canvas, nextId,
          tick, frames, env>>

\* bounds of the runs
ShortRun == 4
LongRun == 42

NoDraws == [edge |-> 0, frac |-> 50, roll |-> 99, spd |-> 70, pspeed |-> 100, maxLife |-> 500]

Inputs(dt, size, now, lst, rnd, id) ==
    [dt |-> dt, width |-> size.width, height |-> size.height, now |-> now,
     absorbNow |-> now, lastSpawnTime |-> lst, rnd |-> rnd, id |-> id]

\* whether the call draws random numbers: it absorbs an orb or spawns one
DrawsRandom(s, c) ==
    /\ s.phase = "PLAYING"
    /\ LET a == LoopEnd(s, c)
       IN  ~a.bomb /\ (Len(a.absorbedIds) > 0 \/ SpawnDue(a.nextOrbs, a.ns.currentWave, c))

\* the point the player steers the cursor to
AimPoint(aim, s, cur) ==
    CASE aim.type = "stay" -> IF cur.has THEN cur.pos ELSE s.hole.pos
      [] aim.type = "orb" -> s.orbs[aim.i].pos
      [] OTHER -> aim.p

\* the fingertip target that brings the smoothed cursor to p
AimTarget(p, cur) ==
    IF cur.has /\ ~cur.pos.nan
    THEN Vec(4 * p.x - 3 * cur.pos.x, 4 * p.y - 3 * cur.pos.y)
    ELSE p

\* targetX = cx + (targetXRaw - cx) * INPUT_SENSITIVITY for a fingertip inside the
\* video frame: within [-0.9 W, 1.9 W]
TargetInRange(tg, size) ==
    /\ 10 * tg.x >= -9 * size.width /\ 10 * tg.x <= 19 * size.width
    /\ 10 * tg.y >= -9 * size.height /\ 10 * tg.y <= 19 * size.height

\* the detector's answers the player can cause in state s
HandAnswers(s, hs, size) ==
    {[kind |-> ch.kind, ratio |-> ch.ratio,
      target |-> IF ch.kind = "hand"
                 THEN AimTarget(AimPoint(ch.aim, s, hs.cursor), hs.cursor)
                 ELSE IF ch.kind = "malformed" THEN NaNVec
                 ELSE Vec(0, 0)] :
        ch \in {x \in env.hands :
                   /\ x.aim.type = "orb" => x.aim.i <= Len(s.orbs)
                   /\ x.kind = "hand" =>
                        TargetInRange(AimTarget(AimPoint(x.aim, s, hs.cursor), hs.cursor), size)}}

\* what the frame keeps of the snapshot it started from
Published(s) == [phase |-> s.phase, hole |-> s.hole, bestScore |-> s.bestScore]

\* One animation frame: loop(time)
Frame ==
    /\ frames < env.maxFrames
    /\ \E step \in env.steps, lag \in env.lags :
         \E h \in HandAnswers(state, handState, canvas) :
           LET time == lastTimeRef + step
               dt == FrameDt(time, lastTimeRef)
               now == time + lag
               hand == updateHandInput(handState, h, time)
               merged == HandMerge(state, hand, canvas.width, canvas.height, storedBest, now)
               c0 == Inputs(dt, canvas, now, lastSpawnTime, NoDraws, nextId)
           IN  \E rnd \in (IF DrawsRandom(merged, c0) THEN env.rnds ELSE {NoDraws}) :
                 \E c \in {[c0 EXCEPT !.rnd = rnd]} :
                   \E call \in {PhysicsCall(merged, c)} :
                     \E saved \in {SaveBest(call.state, state, storedBest)} :
                       /\ state' = saved[1]
                       /\ storedBest' = saved[2]
                       /\ lastTimeRef' = time
                       /\ lastSpawnTime' = call.lastSpawnTime
                       /\ handState' = HandStateAfter(handState, h, time)
                       /\ nextId' = IF call.spawned THEN nextId + 1 ELSE nextId
                       /\ tick' = [prev |-> Published(state), hand |-> hand,
                                   s |-> merged, c |-> c, stored |-> storedBest]
                       /\ frames' = frames + 1
                       /\ UNCHANGED <<canvas, env>>

\* handleResize: the canvas takes the size of its box
Resize ==
    /\ \E size \in env.sizes :
         /\ size # canvas
         /\ canvas' = size
    /\ UNCHANGED <<state, lastTimeRef, lastSpawnTime, storedBest, handState, nextId,
                   tick, frames, env>>

\* ------------------------------------------------------------------- the runs
\* A run starts either where the program starts (Boot) or from a snapshot of a
\* round under way, and is driven by the frame pacing, clock lag, detector
\* answers and random draws its env allows.
Size(w, h) == [width |-> w, height |-> h]
Desk == Size(800, 600)
Small == Size(640, 480)

Stay == [type |-> "stay", i |-> 0, p |-> Vec(0, 0)]
AimOrb(i) == [type |-> "orb", i |-> i, p |-> Vec(0, 0)]
AimAt(x, y) == [type |-> "at", i |-> 0, p |-> Vec(x, y)]

NotReady == [kind |-> "notReady", aim |-> Stay, ratio |-> 100]
NoHands == [kind |-> "noHands", aim |-> Stay, ratio |-> 100]
Open(aim) == [kind |-> "hand", aim |-> aim, ratio |-> 80]
Pinch(aim) == [kind |-> "hand", aim |-> aim, ratio |-> 20]
Half(aim) == [kind |-> "hand", aim |-> aim, ratio |-> 50]
\* a hand whose index fingertip comes back as NaN
Malformed == [kind |-> "malformed", aim |-> Stay, ratio |-> 100]

NormalDraw == [NoDraws EXCEPT !.edge = 0, !.roll = 90]
BombDraw == [NoDraws EXCEPT !.edge = 3, !.roll = 10, !.frac = 25, !.maxLife = 625]

NoCursor == [has |-> FALSE, pos |-> Vec(0, 0)]
NoTick(s) ==
    [prev |-> Published(s),
     hand |-> [hasHand |-> FALSE, cursor |-> NoCursor, isPinched |-> FALSE],
     s |-> s,
     c |-> Inputs(0, Desk, 0, 0, NoDraws, 0),
     stored |-> -1]

\* where the program starts: init() has built the state, no frame has run
Boot ==
    [state |-> createInitialState(Desk.width, Desk.height, -1),
     lastTimeRef |-> 0,
     lastSpawnTime |-> 0,
     handState |-> [cursor |-> NoCursor, pinched |-> FALSE, lastHandTime |-> 0],
     nextId |-> 1,
     env |-> [name |-> "boot",
              steps |-> {16, 300},
              lags |-> {0},
              hands |-> {NotReady, Open(Stay), Pinch(Stay), Open(AimAt(15, 300))},
              rnds |-> {NormalDraw},
              sizes |-> {Desk},
              maxFrames |-> ShortRun + 1]]

\* ---- snapshots of a round under way, at frame timestamp T0
T0 == 64000
RoundStart == 4000

SeedOrb(id, x, y, orbType, status, progress) ==
    [createOrb(x, y, orbType, id) EXCEPT
        !.trail = <<Vec(x, y)>>, !.status = status, !.captureProgress = progress]

Gold(id, x, y, orbType) == SeedOrb(id, x, y, orbType, "GOLD", PSCALE)
Wild(id, x, y, orbType) == SeedOrb(id, x, y, orbType, "WILD", 0)

\* A round started at RoundStart that has played a minute: the announcement
\* is over, `absorbed` orbs were absorbed in wave `wave`, the last of them at
\* time `lastAbsorb` (0: none yet), and the combo stands at `combo`, `timer`.
Playing(holeAt, orbs, radius, wave, absorbed, lastAbsorb, combo, timer) ==
    [resetRound(Desk.width, Desk.height, -1, RoundStart) EXCEPT
        !.hole.pos = holeAt,
        !.orbs = orbs,
        !.blackholeRadius = radius,
        !.lastAbsorbTime = lastAbsorb,
        !.elapsedTime = T0 - RoundStart,
        !.currentWave = wave,
        !.orbsRequiredForLevel = getWaveConfig(wave).orbsRequired,
        !.orbsAbsorbedInWave = absorbed,
        !.orbsSpawnedInWave = absorbed + Len(orbs),
        !.wavePhase = "PLAYING",
        !.waveTransitionTimer = 0,
        !.comboCount = combo,
        !.comboMultiplier = COMBO_MULTIPLIERS[ComboTier(combo, COMBO_MULTIPLIERS) + 1],
        !.lastComboTime = lastAbsorb,
        !.comboTimerRemaining = timer]

\* the run that continues snapshot s: the hand was last seen at T0 on the well,
\* open; the last spawn was `sinceSpawn` ms before T0
Resume(s, sinceSpawn, e) ==
    [state |-> s,
     lastTimeRef |-> T0,
     lastSpawnTime |-> T0 - sinceSpawn,
     handState |-> [cursor |-> [has |-> TRUE, pos |-> s.hole.pos], pinched |-> FALSE,
                    lastHandTime |-> T0],
     nextId |-> 100,
     env |-> e]

Centre == Vec(400, 300)
NearWall == Vec(31, 300)

\* rounds about to absorb: GOLD orbs inside the well, counters near their limits
AbsorbEnv ==
    [name |-> "absorb",
     steps |-> {50, 1600},
     lags |-> {0},
     hands |-> {NoHands, Open(Stay), Pinch(Stay)},
     rnds |-> {NormalDraw, BombDraw},
     sizes |-> {Desk},
     maxFrames |-> ShortRun]

AbsorbSnapshots ==
    { \* one absorption short of the level
      Playing(Centre, <<Gold(1, 410, 300, "NORMAL")>>, 3000, 1, 9, T0 - 3000, 0, 0),
      Playing(Centre, <<Gold(1, 410, 300, "NORMAL"), Gold(2, 400, 310, "NORMAL")>>,
              3000, 1, 9, T0 - 3000, 0, 0),
      Playing(Centre, <<Gold(1, 410, 300, "NORMAL")>>, 3000, 2, 14, T0 - 3000, 0, 0),
      \* the same with the well next to the left wall
      Playing(NearWall, <<Gold(1, 40, 300, "NORMAL")>>, 3050, 1, 9, T0 - 3000, 0, 0),
      \* bombs inside the well
      Playing(Centre, <<Gold(1, 410, 300, "NORMAL"), Gold(2, 400, 310, "BOMB")>>,
              3150, 1, 3, T0 - 1000, 2, 1000),
      Playing(Centre, <<Gold(1, 410, 300, "BOMB"), Gold(2, 400, 310, "NORMAL")>>,
              3000, 1, 3, T0 - 3000, 0, 0),
      \* (the burst of the last absorption is on its last frames)
      [Playing(Centre, <<Gold(1, 400, 290, "BOMB"),
                         SeedOrb(2, 500, 300, "NORMAL", "CAPTURING", 3000),
                         SeedOrb(3, 700, 300, "NORMAL", "CAPTURING", 3000)>>,
               3400, 2, 5, T0 - 500, 6, 1500)
          EXCEPT !.particles = <<[n |-> 45, pos |-> Vec(460, 300), vel |-> Vec(40, 0),
                                  life |-> 50, maxLife |-> 625]>>],
      \* a combo of five running, the sixth orb inside the well
      Playing(Centre, <<Gold(1, 410, 300, "NORMAL"), Wild(2, 700, 500, "NORMAL")>>,
              5900, 1, 5, T0 - 500, 5, 1500),
      \* the last orb of the level inside the well, a bomb one tick from GOLD
      Playing(Centre, <<Gold(1, 410, 300, "NORMAL"),
                        SeedOrb(2, 400, 310, "BOMB", "CAPTURING", 5900)>>,
              3000, 1, 9, T0 - 3000, 0, 0),
      \* growth that reaches the wall, without and with a bomb behind it
      Playing(NearWall, <<Gold(1, 40, 300, "NORMAL"), Gold(2, 31, 310, "NORMAL")>>,
              3000, 1, 3, T0 - 3000, 0, 0),
      Playing(NearWall, <<Gold(1, 40, 300, "NORMAL"), Gold(2, 31, 310, "NORMAL"),
                          Gold(3, 31, 290, "BOMB")>>,
              3000, 1, 3, T0 - 3000, 0, 0),
      \* a grown well inside and outside the decay delay
      Playing(Centre, <<Wild(1, 700, 500, "NORMAL")>>, 3320, 1, 4, T0 - 1400, 1, 600),
      Playing(Centre, <<Wild(1, 700, 500, "NORMAL")>>, 3020, 1, 4, T0 - 3000, 0, 0),
      \* a combo with 20 ms left on its timer
      Playing(Centre, <<Wild(1, 700, 500, "NORMAL")>>, 3250, 1, 4, T0 - 1980, 3, 20),
      \* an orb one tick from GOLD, no absorption so far
      Playing(Centre, <<SeedOrb(1, 410, 300, "NORMAL", "CAPTURING", 5900)>>,
              3000, 1, 0, 0, 0, 0),
      \* orbs in every stage of taming, inside, on and outside the grab radius
      Playing(Centre, <<Gold(1, 500, 300, "NORMAL"),
                        SeedOrb(2, 700, 300, "NORMAL", "CAPTURING", 3000),
                        SeedOrb(3, 100, 300, "NORMAL", "CAPTURING", 100),
                        Wild(4, 400, 520, "NORMAL"),
                        Wild(5, 400, 100, "NORMAL"),
                        Gold(6, 60, 60, "BOMB")>>,
              3000, 1, 0, 0, 0, 0) }

AbsorbRuns == {Resume(s, 100, AbsorbEnv) : s \in AbsorbSnapshots}

\* a round with four tamed orbs kept at a distance and no absorption so far;
\* the player jumps onto one orb per frame or waits, frames 0.5 s or 2.5 s apart
StreakEnv ==
    [name |-> "streak",
     steps |-> {500, 2500},
     lags |-> {0},
     hands |-> {NotReady, Open(AimOrb(1))},
     rnds |-> {NormalDraw},
     sizes |-> {Desk},
     maxFrames |-> ShortRun + 1]

StreakRuns ==
    {Resume(Playing(Vec(150, 300),
                    <<Gold(1, 400, 300, "NORMAL"), Gold(2, 400, 180, "NORMAL"),
                      Gold(3, 520, 300, "NORMAL"), Gold(4, 400, 420, "NORMAL"),
                      Wild(5, 760, 560, "NORMAL")>>,
                    3000, 1, 0, 0, 0, 0),
            100, StreakEnv)}

\* the same at full frame rate, long enough for the combo timer to run out: one
\* tamed orb inside the well, one kept away, the clock read up to 30 ms after
\* the frame's timestamp
TimerEnv ==
    [name |-> "timer",
     steps |-> {50},
     lags |-> {0, 30},
     hands |-> {NotReady, Open(AimOrb(1))},
     rnds |-> {NormalDraw},
     sizes |-> {Desk},
     maxFrames |-> LongRun]

TimerRuns ==
    {Resume(Playing(Vec(100, 300),
                    <<Gold(1, 450, 300, "NORMAL"), Gold(2, 100, 310, "NORMAL"),
                      Wild(3, 760, 560, "NORMAL"), Wild(4, 760, 40, "NORMAL"),
                      Wild(5, 780, 300, "NORMAL")>>,
                    3000, 1, 0, 0, 0, 0),
            100, TimerEnv)}

\* a round whose window is resized between frames: the well next to where the
\* right edge of the smaller canvas falls, one orb beyond it, one orb flying
\* at the right wall
ResizeEnv ==
    [name |-> "resize",
     steps |-> {50},
     lags |-> {0},
     hands |-> {NotReady, Open(Stay)},
     rnds |-> {NormalDraw},
     sizes |-> {Desk, Small},
     maxFrames |-> ShortRun - 1]

ResizeRuns ==
    {Resume(Playing(Vec(620, 300),
                    <<Wild(1, 100, 100, "NORMAL"), Wild(2, 700, 500, "NORMAL"),
                      [Wild(3, 785, 100, "BOMB") EXCEPT !.vel = Vec(200, 0)]>>,
                    3020, 1, 4, T0 - 3000, 0, 0),
            100, ResizeEnv)}

\* the program from its start with the hand pinched and still: the well repels,
\* nothing is tamed or absorbed, and every frame is far enough from the last
\* for a spawn; the draws give at most MaxBombs + 1 bombs before the NORMAL
\* orbs are complete
MaxBombs == 2

DensityEnv ==
    [name |-> "density",
     steps |-> {300},
     lags |-> {0},
     hands |-> {Pinch(Stay)},
     rnds |-> {NormalDraw, BombDraw},
     sizes |-> {Desk},
     maxFrames |-> WAVE_DENSITY_BASE + MaxBombs + 2]

DensityRun == [Boot EXCEPT !.env = DensityEnv]

\* rounds one absorption short of the level in each wave up to MaxWave, ten
\* minutes of play per wave behind them
MaxWave == 12

WaveEnv ==
    [name |-> "wave",
     steps |-> {50, 300},
     lags |-> {0},
     hands |-> {NotReady, Pinch(Stay)},
     rnds |-> {NormalDraw, BombDraw},
     sizes |-> {Desk},
     maxFrames |-> ShortRun]

WaveClock(w) == T0 + (w - 1) * 600000

WaveSnapshot(w) ==
    [Playing(Centre, <<Gold(1, 410, 300, "NORMAL")>>, 3000, w,
             getWaveConfig(w).orbsRequired - 1, WaveClock(w) - 3000, 0, 0)
        EXCEPT !.elapsedTime = WaveClock(w) - RoundStart]

WaveRuns ==
    {[Resume(WaveSnapshot(w), 100, WaveEnv) EXCEPT
         !.lastTimeRef = WaveClock(w),
         !.lastSpawnTime = WaveClock(w) - 100,
         !.handState.lastHandTime = WaveClock(w)] : w \in 1..MaxWave}

\* a round under way in which the detector may answer with a malformed hand:
\* orbs in every stage of taming around the well, the player's hand otherwise
\* held at the centre, open or pinched
FaultEnv ==
    [name |-> "fault",
     steps |-> {50, 300},
     lags |-> {0},
     hands |-> {Malformed, NotReady, Open(AimAt(400, 300)), Pinch(AimAt(400, 300))},
     rnds |-> {NormalDraw, BombDraw},
     sizes |-> {Desk},
     maxFrames |-> ShortRun]

FaultRuns ==
    {Resume(Playing(Centre, <<Gold(1, 500, 300, "NORMAL"),
                              SeedOrb(2, 700, 300, "NORMAL", "CAPTURING", 3000),
                              Wild(3, 400, 100, "NORMAL")>>,
                    3000, 1, 0, 0, 0, 0),
            100, FaultEnv)}

Runs == {Boot, DensityRun} \cup AbsorbRuns \cup StreakRuns \cup TimerRuns \cup ResizeRuns

StartOf(r) ==
    /\ state = r.state
    /\ lastTimeRef = r.lastTimeRef
    /\ lastSpawnTime = r.lastSpawnTime
    /\ storedBest = -1
    /\ handState = r.handState
    /\ canvas = Desk
    /\ nextId = r.nextId
    /\ tick = NoTick(r.state)
    /\ frames = 0
    /\ env = r.env

Init == \E r \in Runs : StartOf(r)

Next == Frame \/ Resize

Spec == Init /\ [][Next]_vars

\* the rounds about to level up, wave by wave
WaveInit == \E r \in WaveRuns : StartOf(r)

WaveSpec == WaveInit /\ [][Frame]_vars

\* the round with malformed hand samples
FaultInit == \E r \in FaultRuns : StartOf(r)

FaultSpec == FaultInit /\ [][Frame]_vars

\* the density run alone, the window left as it is, with frames that keep
\* coming while the run lasts: requestAnimationFrame reschedules loop at the end
\* of every frame.  FramesKeepComing is WF_vars(Frame) written out, ENABLED
\* <<Frame>>_vars being frames < env.maxFrames in this run (the hand always
\* answers).
DensityInit == StartOf(DensityRun)

FramesKeepComing == []<>(frames >= env.maxFrames) \/ []<><<Frame>>_vars

DensitySpec == DensityInit /\ [][Frame]_vars /\ FramesKeepComing

\* ------------------------------------------------------------ the properties
\* `tick` holds what the last frame handed to updatePhysics (tick.s, tick.c);
\* `state` is what that call returned.
Stepped == frames > 0
PlayingTick == Stepped /\ tick.s.phase = "PLAYING"

\* the locals of the orb loop when it reaches orb i of the tick's input
LocalsAt(i) ==
    LET ns == BeforeLoop(tick.s, tick.c)
    IN  OrbLoop(LoopStart(ns, << >>, 0), SubSeq(ns.orbs, 1, i - 1), 1, tick.c)

\* orb i is a GOLD BOMB that the loop reaches and finds inside 0.9 x the radius
\* the well has at that moment
BombInsideAt(i) ==
    /\ tick.s.orbs[i].orbType = "BOMB"
    /\ tick.s.orbs[i].status = "GOLD"
    /\ ~LocalsAt(i).bomb
    /\ InsideAbsorb(vLenSq(vSub(tick.s.hole.pos, tick.s.orbs[i].pos)),
                    LocalsAt(i).blackholeRadius)

BombAbsorbed == \E i \in 1..Len(tick.s.orbs) : BombInsideAt(i)

\* no orb is GOLD and inside 0.9 x the radius the tick starts with: nothing is
\* absorbed, since the radius only grows by absorbing
NothingAbsorbed ==
    \A i \in 1..Len(tick.s.orbs) :
        ~(/\ tick.s.orbs[i].status = "GOLD"
          /\ InsideAbsorb(vLenSq(vSub(tick.s.hole.pos, tick.s.orbs[i].pos)),
                          tick.s.blackholeRadius))

\* the ids of the tick's input that the returned orb list no longer holds
IdsOf(orbs) == {orbs[i].id : i \in 1..Len(orbs)}
Gone == IdsOf(tick.s.orbs) \ IdsOf(state.orbs)

\* C1: outside phase PLAYING updatePhysics returns its input unchanged in every
\* field, for INIT, START, RESULT and VICTORY alike, so no step leaves RESULT.
NonPlayingIsIdentity ==
    /\ (Stepped /\ tick.s.phase # "PLAYING") => state = tick.s
    /\ \A ph \in {"INIT", "START", "RESULT", "VICTORY"} :
         LET s == [state EXCEPT !.phase = ph]
             c == Inputs(DT_CAP_MS, canvas, lastTimeRef + DT_CAP_MS, lastSpawnTime,
                         BombDraw, nextId)
         IN  /\ updatePhysics(s, c) = s
             /\ PhysicsCall(s, c).lastSpawnTime = lastSpawnTime

\* a finished round, orbs still on the canvas, went through a frame
ResultStepped ==
    /\ Stepped
    /\ tick.s.phase = "RESULT"
    /\ Len(tick.s.orbs) > 0
    /\ state.phase = "RESULT"

\* C2: a PLAYING tick in which a GOLD BOMB is processed inside 0.9 x the current
\* radius returns phase RESULT with deathReason BOMB, whatever the combo, wave
\* or mode.
BombEndsRound ==
    (PlayingTick /\ BombAbsorbed) => (state.phase = "RESULT" /\ state.deathReason = "BOMB")

\* a bomb absorbed in repel mode with a combo running, after a NORMAL orb of the
\* same tick
BombAfterOrbInCombo ==
    /\ PlayingTick
    /\ BombAbsorbed
    /\ tick.s.comboCount > 0
    /\ tick.s.hole.mode = "REPEL"
    /\ LoopEnd(tick.s, tick.c).absorbedIds # << >>
    /\ state.deathReason = "BOMB"

\* the well (centre, radius) reaches past an edge of the tick's canvas
PastAnEdge(pos, radius) ==
    \/ pos.x * RSCALE - radius < 0
    \/ pos.y * RSCALE - radius < 0
    \/ pos.x * RSCALE + radius > tick.c.width * RSCALE
    \/ pos.y * RSCALE + radius > tick.c.height * RSCALE

\* C3: a PLAYING tick without a bomb absorption whose final radius reaches past
\* an edge returns RESULT with deathReason WALL; with a bomb absorption in the
\* same tick the reason is BOMB.
WallEndsRound ==
    PlayingTick =>
        /\ (~BombAbsorbed /\ PastAnEdge(state.hole.pos, state.blackholeRadius))
               => (state.phase = "RESULT" /\ state.deathReason = "WALL")
        /\ (BombAbsorbed /\ PastAnEdge(tick.s.hole.pos,
                                       LoopEnd(tick.s, tick.c).blackholeRadius))
               => (state.phase = "RESULT" /\ state.deathReason = "BOMB")

\* the well fitted before the tick and an absorption grew it past the wall
GrownIntoWall ==
    /\ PlayingTick
    /\ ~BombAbsorbed
    /\ Gone # {}
    /\ ~PastAnEdge(tick.s.hole.pos, tick.s.blackholeRadius)
    /\ PastAnEdge(state.hole.pos, state.blackholeRadius)
    /\ state.deathReason = "WALL"

\* C4: level-up is immediate: the tick whose absorption takes orbsAbsorbedInWave
\* from R-1 to R returns currentWave raised by one and the counter at 0, and no
\* PLAYING tick returns orbsAbsorbedInWave >= orbsRequiredForLevel.
LevelUpOnAbsorbingTick ==
    PlayingTick =>
        /\ state.orbsAbsorbedInWave < state.orbsRequiredForLevel
        /\ (/\ tick.s.orbsAbsorbedInWave = tick.s.orbsRequiredForLevel - 1
            /\ ~BombAbsorbed
            /\ Cardinality(Gone) = 1)
               => (/\ state.currentWave = tick.s.currentWave + 1
                   /\ state.orbsAbsorbedInWave = 0)

\* C5: a round in which the wave's quota of orbs is absorbed and no bomb ever is
\* reaches the next wave with the counter back at 0; so a round that ended at
\* the wall (no bomb absorbed) never rests with the quota met and the wave not
\* raised.
QuotaMetRaisesWave ==
    (state.phase = "RESULT" /\ state.deathReason = "WALL")
        => state.orbsAbsorbedInWave < state.orbsRequiredForLevel

\* C6: an absorption of a NORMAL orb no more than COMBO_WINDOW_MS after the
\* previous scoring event raises comboCount by exactly 1; one later than that
\* sets it to exactly 1.
ComboStepByWindow ==
    (/\ PlayingTick
     /\ ~BombAbsorbed
     /\ Cardinality(Gone) = 1
     /\ tick.s.lastComboTime > 0)
        => state.comboCount =
               IF tick.c.now - tick.s.lastComboTime <= COMBO_WINDOW_MS
               THEN tick.s.comboCount + 1
               ELSE 1

\* C7: an absorption that follows the previous one by less than COMBO_WINDOW_MS
\* leaves comboCount strictly greater than the previous absorption left it,
\* also on a tick where updateComboTimer runs first.
ComboGrowsInsideWindow ==
    (/\ PlayingTick
     /\ ~BombAbsorbed
     /\ Gone # {}
     /\ tick.s.lastComboTime > 0
     /\ tick.c.now - tick.s.lastComboTime < COMBO_WINDOW_MS)
        => (state.comboCount > tick.s.comboCount /\ state.comboCount >= 2)

\* C8: comboTimerRemaining is 0 exactly when comboCount is 0, lies in (0, 2000]
\* while comboCount > 0, and a tick that takes the timer to 0 or below leaves
\* comboCount 0, comboMultiplier 1.0 and the timer 0, never negative.
ComboTimerMatchesCount ==
    /\ (state.comboTimerRemaining = 0) <=> (state.comboCount = 0)
    /\ state.comboCount > 0 =>
           (state.comboTimerRemaining > 0 /\ state.comboTimerRemaining <= COMBO_WINDOW_MS)
    /\ state.comboTimerRemaining >= 0
    /\ (/\ PlayingTick
        /\ tick.s.comboCount > 0
        /\ tick.s.comboTimerRemaining - tick.c.dt <= 0)
           => LET ticked == updateComboTimer(tick.s, tick.c.dt)
              IN  /\ ticked.comboCount = 0
                  /\ ticked.comboMultiplier = 10
                  /\ ticked.comboTimerRemaining = 0
                  /\ NothingAbsorbed =>
                         (/\ state.comboCount = 0
                          /\ state.comboMultiplier = 10
                          /\ state.comboTimerRemaining = 0)

\* a combo whose timer had less left than the tick took
ComboRanOut ==
    /\ PlayingTick
    /\ NothingAbsorbed
    /\ tick.s.comboCount > 1
    /\ tick.s.comboTimerRemaining - tick.c.dt < 0
    /\ state.comboCount = 0

\* C9: blackholeRadius is never below MIN_RADIUS.
RadiusAtLeastMin == state.blackholeRadius >= MIN_RADIUS * RSCALE

\* a well less than one tick of decay above the minimum, decayed onto it
ClampedAtMin ==
    /\ PlayingTick
    /\ NothingAbsorbed
    /\ tick.s.blackholeRadius > MIN_RADIUS * RSCALE
    /\ tick.s.blackholeRadius - (DECAY_RATE * tick.c.dt * RSCALE) \div 1000
           < MIN_RADIUS * RSCALE
    /\ state.blackholeRadius = MIN_RADIUS * RSCALE

\* C10: across a PLAYING tick without absorption the radius never grows: it is
\* unchanged while no absorption has happened or the last one is at most
\* DECAY_DELAY_MS back, and after that it drops by DECAY_RATE x dt, not below
\* MIN_RADIUS.
DecayOnlyAfterDelay ==
    (PlayingTick /\ NothingAbsorbed) =>
        /\ state.blackholeRadius <= tick.s.blackholeRadius
        /\ state.blackholeRadius =
               IF tick.s.lastAbsorbTime = 0
                  \/ tick.c.now - tick.s.lastAbsorbTime <= DECAY_DELAY_MS
               THEN tick.s.blackholeRadius
               ELSE Max(MIN_RADIUS * RSCALE,
                        tick.s.blackholeRadius - (DECAY_RATE * tick.c.dt * RSCALE) \div 1000)

\* the first tick past the delay: the last absorption exactly DECAY_DELAY_MS
\* plus one frame back, the radius one tick of decay smaller
DecayStarted ==
    /\ PlayingTick
    /\ NothingAbsorbed
    /\ tick.c.now - tick.s.lastAbsorbTime = DECAY_DELAY_MS + DT_CAP_MS
    /\ tick.c.dt = DT_CAP_MS
    /\ state.blackholeRadius = tick.s.blackholeRadius - (DECAY_RATE * DT_CAP_MS * RSCALE) \div 1000
    /\ state.blackholeRadius > MIN_RADIUS * RSCALE

\* the live NORMAL orbs of a snapshot
NormalOrbs(s) == {i \in 1..Len(s.orbs) : s.orbs[i].orbType = "NORMAL"}
BombOrbs(s) == {i \in 1..Len(s.orbs) : s.orbs[i].orbType = "BOMB"}
TargetOf(s) == getWaveConfig(s.currentWave).targetDensity

\* the orbs of the returned list that the tick's input did not hold
Spawned == {i \in 1..Len(state.orbs) : state.orbs[i].id \notin IdsOf(tick.s.orbs)}

\* C11: the live NORMAL orbs never outnumber the current wave's target density,
\* which is at most WAVE_MAX_DENSITY; a tick spawns at most one orb, and only
\* when the NORMAL orbs left by the loop are strictly fewer than the target.
DensityBounded ==
    /\ Cardinality(NormalOrbs(state)) <= TargetOf(state)
    /\ TargetOf(state) <= WAVE_MAX_DENSITY
    /\ PlayingTick =>
         /\ Cardinality(Spawned) <= 1
         /\ Spawned # {} =>
              Cardinality(NormalOrbs(state) \ Spawned) < TargetOf(state)

\* a NORMAL orb spawned into the last free place
SpawnedUpToTarget ==
    /\ PlayingTick
    /\ Spawned # {}
    /\ state.phase = "PLAYING"
    /\ Cardinality(NormalOrbs(state)) = TargetOf(state)

\* a round under way without absorption so far and with no more bombs drawn
\* than a fair sequence of draws gives
InQuietRound ==
    /\ state.phase = "PLAYING"
    /\ state.lastAbsorbTime = 0
    /\ Cardinality(BombOrbs(state)) <= MaxBombs

AtTarget == Cardinality(NormalOrbs(state)) = TargetOf(state)

\* C12: in a round that stays PLAYING without absorptions, with frames that keep
\* coming and draws that do not give bombs forever, the live NORMAL orbs
\* eventually number the wave's target density and stay at it.
DensityConverges == <>[](InQuietRound => AtTarget)

\* the target reached after MaxBombs bombs were drawn on the way
TargetReachedPastBombs ==
    /\ InQuietRound
    /\ AtTarget
    /\ Cardinality(BombOrbs(state)) = MaxBombs
    /\ frames > WAVE_DENSITY_BASE + MaxBombs

\* where orb would be, and how fast, before the wall bounce of this tick
Unbounced(orb) ==
    LET isPinching == tick.s.hole.mode = "REPEL"
        d == vSub(tick.s.hole.pos, orb.pos)
        vel == NextVelocity(orb.vel, Gravity(d, vLenSq(d), isPinching), tick.c.dt)
    IN  [vel |-> vel, pos |-> vAdd(orb.pos, vScale(vel, tick.c.dt, 1000))]

\* the orb of the tick's input with this id
InputOrb(id) == tick.s.orbs[CHOOSE i \in 1..Len(tick.s.orbs) : tick.s.orbs[i].id = id]

Outcome(call) ==
    [spawned |-> call.spawned,
     comboCount |-> call.state.comboCount,
     blackholeRadius |-> call.state.blackholeRadius,
     phase |-> call.state.phase]

\* the same call made in a session resumed from a saved copy of the snapshot:
\* the module's lastSpawnTime starts again at 0 or has just been set by another
\* round, and performance.now() counts from the new page load
ResumedInputs ==
    {[tick.c EXCEPT !.lastSpawnTime = lst, !.now = now, !.absorbNow = now] :
        lst \in {0, tick.c.lastSpawnTime, tick.c.now},
        now \in {tick.c.now, tick.c.now + DECAY_DELAY_MS + COMBO_WINDOW_MS}}

\* C14: the next snapshot depends on the snapshot, dt and the bounds alone: the
\* call repeated on a saved copy gives the same spawn decision, combo count,
\* radius and phase whatever lastSpawnTime and the clock are.
SnapshotDecides ==
    PlayingTick =>
        \A c2 \in ResumedInputs :
            Outcome(PhysicsCall(tick.s, c2)) = Outcome(PhysicsCall(tick.s, tick.c))

\* the snapshot object handed to updatePhysics as the call leaves it:
\* updateParticles writes life, pos and vel of the particles it is given, and
\* those are the particles of the input
InputAfterCall(s, c) ==
    IF s.phase # "PLAYING" THEN s
    ELSE [s EXCEPT !.particles = MutatedParticles(s.particles, c.dt)]

\* C15: updatePhysics leaves its input snapshot as it was in every field,
\* particles included, however the tick ends.
InputUntouched == PlayingTick => InputAfterCall(tick.s, tick.c) = tick.s

\* a round as createInitialState builds it, read off the constants
FreshRound(width, height) ==
    /\ state.hole = [pos |-> Vec(width \div 2, height \div 2), mode |-> "ATTRACT"]
    /\ state.blackholeRadius = MIN_RADIUS * RSCALE
    /\ state.currentWave = 1
    /\ state.orbsRequiredForLevel = WAVE_REQUIRED_BASE
    /\ state.orbsAbsorbedInWave = 0
    /\ state.orbs = << >>
    /\ state.particles = << >>
    /\ state.comboCount = 0
    /\ state.comboTimerRemaining = 0
    /\ state.elapsedTime = 0
    /\ state.lastAbsorbTime = 0
    /\ state.deathReason = "NONE"

PinchedSample == [hasHand |-> TRUE, cursor |-> NoCursor, isPinched |-> TRUE]

\* C16: a pinch with a hand present in phase RESULT or VICTORY gives phase START
\* and a freshly constructed round in every field but bestScore, which is
\* kept.
BeginGivesFreshStart ==
    /\ (/\ Stepped
        /\ tick.prev.phase \in {"RESULT", "VICTORY"}
        /\ tick.hand.hasHand
        /\ tick.hand.isPinched)
           => /\ state = [createInitialState(tick.c.width, tick.c.height, storedBest)
                             EXCEPT !.phase = "START", !.bestScore = tick.prev.bestScore]
              /\ FreshRound(tick.c.width, tick.c.height)
    /\ \A ph \in {"RESULT", "VICTORY"} :
         LET merged == HandMerge([state EXCEPT !.phase = ph], PinchedSample,
                                 canvas.width, canvas.height, storedBest, lastTimeRef)
         IN  /\ merged.phase = "START"
             /\ merged.bestScore = state.bestScore
             /\ [merged EXCEPT !.phase = "INIT", !.bestScore = 0]
                    = [createInitialState(canvas.width, canvas.height, storedBest)
                           EXCEPT !.bestScore = 0]

\* a round lost with the well away from the centre, begun again by a pinch
BegunAgainAfterLoss ==
    /\ Stepped
    /\ tick.prev.phase = "RESULT"
    /\ tick.prev.hole.pos # Vec(tick.c.width \div 2, tick.c.height \div 2)
    /\ tick.hand.hasHand
    /\ tick.hand.isPinched
    /\ state.phase = "START"

PhaseEdges ==
    {<<"INIT", "START">>, <<"START", "PLAYING">>, <<"PLAYING", "RESULT">>,
     <<"PLAYING", "VICTORY">>, <<"RESULT", "START">>, <<"VICTORY", "START">>}

\* C17: from the state one frame publishes to the state the next one publishes
\* the phase stays or moves along exactly one edge of the phase graph; no frame
\* skips a phase.
OneEdgePerFrame ==
    Stepped =>
        \/ state.phase = tick.prev.phase
        \/ <<tick.prev.phase, state.phase>> \in PhaseEdges

\* C18: getWaveConfig(1) is {5, 10, 0.15}; targetDensity, orbsRequired and
\* bombChance never drop from one wave to the next; targetDensity stops at
\* WAVE_MAX_DENSITY (from wave 10 on) and bombChance at 0.50 (from wave 8 on),
\* while orbsRequired has no cap: it grows by WAVE_REQUIRED_INCREMENT with
\* every wave.  The level-up installs the new wave's orbsRequired.
WaveConfigGrows ==
    LET w == state.currentWave
        cfg == getWaveConfig(w)
        nxt == getWaveConfig(w + 1)
    IN  /\ getWaveConfig(1) = [targetDensity |-> 5, orbsRequired |-> 10, bombChance |-> 15]
        /\ nxt.targetDensity >= cfg.targetDensity
        /\ nxt.bombChance >= cfg.bombChance
        /\ nxt.orbsRequired = cfg.orbsRequired + WAVE_REQUIRED_INCREMENT
        /\ cfg.targetDensity <= WAVE_MAX_DENSITY
        /\ w >= 10 => cfg.targetDensity = WAVE_MAX_DENSITY
        /\ cfg.bombChance <= 50
        /\ w >= 8 => cfg.bombChance = 50
        /\ state.orbsRequiredForLevel = cfg.orbsRequired

\* a level-up past the waves where density and bomb chance have stopped
LevelUpPastCaps ==
    /\ PlayingTick
    /\ tick.s.currentWave >= 10
    /\ state.currentWave = tick.s.currentWave + 1
    /\ state.orbsRequiredForLevel > tick.s.orbsRequiredForLevel
    /\ TargetOf(state) = TargetOf(tick.s)

\* C18 as stated: all three values stop growing at a fixed cap, orbsRequired
\* included, so from the wave where targetDensity and bombChance stand still
\* the whole configuration stands still.
WaveConfigAllCapped ==
    state.currentWave >= 10 =>
        getWaveConfig(state.currentWave + 1) = getWaveConfig(state.currentWave)

\* the frame's sample begins a round or a new start: a pinch with a hand
\* present outside PLAYING
BeginSample ==
    /\ tick.hand.hasHand
    /\ tick.hand.isPinched
    /\ tick.prev.phase # "PLAYING"

\* C19: without a hand in the sample the frame leaves the well's position and
\* mode as the previous state had them and makes no input-driven phase
\* transition; with a hand the merged mode is REPEL exactly when isPinched,
\* except on a frame whose pinch begins a round or a new start, where the
\* merged state is the freshly built one: well centred, mode ATTRACT.
HandDrivesWellUnlessBegin ==
    Stepped =>
        /\ ~tick.hand.hasHand =>
               (tick.s.hole = tick.prev.hole /\ tick.s.phase = tick.prev.phase)
        /\ (tick.hand.hasHand /\ ~BeginSample) =>
               /\ (tick.s.hole.mode = "REPEL") <=> tick.hand.isPinched
               /\ tick.hand.cursor.has => tick.s.hole.pos = tick.hand.cursor.pos
        /\ BeginSample =>
               tick.s.hole = [pos |-> Vec(tick.c.width \div 2, tick.c.height \div 2),
                              mode |-> "ATTRACT"]

\* the hand opened during play after a pinch: the well goes back to ATTRACT
ReleasedWhilePlaying ==
    /\ Stepped
    /\ tick.prev.phase = "PLAYING"
    /\ tick.prev.hole.mode = "REPEL"
    /\ tick.hand.hasHand
    /\ ~tick.hand.isPinched
    /\ tick.s.hole.mode = "ATTRACT"

\* C19 as stated: with a hand in the sample the merged mode is REPEL exactly
\* when isPinched, on every frame.
HandDrivesWell ==
    Stepped =>
        /\ ~tick.hand.hasHand =>
               (tick.s.hole = tick.prev.hole /\ tick.s.phase = tick.prev.phase)
        /\ tick.hand.hasHand =>
               ((tick.s.hole.mode = "REPEL") <=> tick.hand.isPinched)

\* the frame ended a round: the snapshot before it was PLAYING, the one it
\* published is RESULT or VICTORY
RoundEnded ==
    /\ Stepped
    /\ tick.prev.phase = "PLAYING"
    /\ state.phase \in {"RESULT", "VICTORY"}

\* C20: a frame that ends a round with an elapsed time below the stored best
\* time writes that elapsed time to the store and to bestScore; any other frame
\* leaves the stored value as it found it.
BestTimeSaved ==
    Stepped =>
        IF RoundEnded /\ state.elapsedTime < ReadBestTime(tick.stored)
        THEN storedBest = state.elapsedTime /\ state.bestScore = state.elapsedTime
        ELSE storedBest = tick.stored

\* the orb of the returned list that carries the token id (the orb itself when the
\* list does not hold it)
After(orb) ==
    IF \E j \in 1..Len(state.orbs) : state.orbs[j].id = orb.id
    THEN state.orbs[CHOOSE j \in 1..Len(state.orbs) : state.orbs[j].id = orb.id]
    ELSE orb

\* C21: an orb that is GOLD when a PLAYING tick starts and is still in the
\* returned list is GOLD there with captureProgress 1, whatever the well's mode
\* and the orb's distance.
GoldStaysGold ==
    PlayingTick =>
        \A i \in 1..Len(tick.s.orbs) :
            tick.s.orbs[i].status = "GOLD" =>
                /\ After(tick.s.orbs[i]).status = "GOLD"
                /\ After(tick.s.orbs[i]).captureProgress = PSCALE

\* orb i of the tick's input is not GOLD
Untamed(i) == tick.s.orbs[i].status \in {"WILD", "CAPTURING"}

\* the squared distance of orb i of the tick's input to the well
DistSqAt(i) == vLenSq(vSub(tick.s.hole.pos, tick.s.orbs[i].pos))

\* C22: after any PLAYING tick in REPEL mode, every orb that was WILD or
\* CAPTURING when the tick started is WILD with captureProgress 0, whatever its
\* distance and its progress.
RepelBreaksCaptureOnAnyTick ==
    (PlayingTick /\ tick.s.hole.mode = "REPEL") =>
        \A i \in 1..Len(tick.s.orbs) :
            Untamed(i) =>
                /\ After(tick.s.orbs[i]).status = "WILD"
                /\ After(tick.s.orbs[i]).captureProgress = 0

\* captureProgress of orb i of the tick's input plus dt / CAPTURE_TIME_MS
ProgressSum(i) == tick.s.orbs[i].captureProgress + (tick.c.dt * PSCALE) \div CAPTURE_TIME_MS

\* C23: on a PLAYING tick in ATTRACT mode a non-GOLD orb inside GRAB_RADIUS is
\* returned CAPTURING with dt / 1.2 s added to its captureProgress, or GOLD with
\* progress exactly 1 once the sum reaches 1; with dt <= 0.05 s an orb gains at
\* most 1/24 per tick, so an orb that turns GOLD stood within 1/24 of 1 (no
\* orb spawned at 0 turns GOLD in fewer than 24 such ticks).
CaptureAdvances ==
    (PlayingTick /\ tick.s.hole.mode = "ATTRACT") =>
        \A i \in 1..Len(tick.s.orbs) :
            /\ (Untamed(i) /\ InGrabRadius(DistSqAt(i))) =>
                   IF ProgressSum(i) >= PSCALE
                   THEN /\ After(tick.s.orbs[i]).status = "GOLD"
                        /\ After(tick.s.orbs[i]).captureProgress = PSCALE
                   ELSE /\ After(tick.s.orbs[i]).status = "CAPTURING"
                        /\ After(tick.s.orbs[i]).captureProgress = ProgressSum(i)
            /\ (Untamed(i) /\ After(tick.s.orbs[i]).status = "GOLD") =>
                   /\ InGrabRadius(DistSqAt(i))
                   /\ 24 * (PSCALE - tick.s.orbs[i].captureProgress) <= PSCALE

\* captureProgress of orb i of the tick's input less 0.5 x dt
ProgressLeft(i) == tick.s.orbs[i].captureProgress - (tick.c.dt * PSCALE) \div 2000

\* C24: on a PLAYING tick in ATTRACT mode a CAPTURING orb at or beyond
\* GRAB_RADIUS loses 0.5 x dt of captureProgress and stays CAPTURING while the
\* result is above 0, and is WILD with progress exactly 0 on the tick where the
\* result is 0 or less; a WILD orb outside the grab radius stays WILD with
\* progress 0.
CaptureDecays ==
    (PlayingTick /\ tick.s.hole.mode = "ATTRACT") =>
        \A i \in 1..Len(tick.s.orbs) :
            ~InGrabRadius(DistSqAt(i)) =>
                /\ tick.s.orbs[i].status = "CAPTURING" =>
                       IF ProgressLeft(i) > 0
                       THEN /\ After(tick.s.orbs[i]).status = "CAPTURING"
                            /\ After(tick.s.orbs[i]).captureProgress = ProgressLeft(i)
                       ELSE /\ After(tick.s.orbs[i]).status = "WILD"
                            /\ After(tick.s.orbs[i]).captureProgress = 0
                /\ tick.s.orbs[i].status = "WILD" =>
                       /\ After(tick.s.orbs[i]).status = "WILD"
                       /\ After(tick.s.orbs[i]).captureProgress = 0

\* the tokens of the NORMAL orbs the tick's loop absorbed, and the state its
\* loop started from (after the wave and combo-timer updates)
AbsorbedNow == LoopEnd(tick.s, tick.c).absorbedIds
LoopInput == BeforeLoop(tick.s, tick.c)

\* C25: a PLAYING tick that absorbs k >= 1 GOLD NORMAL orbs returns a list
\* without them, orbsAbsorbedInWave raised by k, blackholeRadius raised by
\* GROWTH_PER_ORB plus the combo growth bonus for each (for k = 1: the bonus of
\* the running combo), lastAbsorbTime at the tick's clock reading and
\* comboTimerRemaining at 2000.
AbsorptionApplied ==
    (PlayingTick /\ Len(AbsorbedNow) > 0) =>
        /\ \A j \in 1..Len(AbsorbedNow) : AbsorbedNow[j] \notin IdsOf(state.orbs)
        /\ state.orbsAbsorbedInWave = LoopInput.orbsAbsorbedInWave + Len(AbsorbedNow)
        /\ state.blackholeRadius >=
               LoopInput.blackholeRadius + Len(AbsorbedNow) * GROWTH_PER_ORB * RSCALE
        /\ Len(AbsorbedNow) = 1 =>
               state.blackholeRadius = LoopInput.blackholeRadius
                   + (GROWTH_PER_ORB + getComboGrowthBonus(LoopInput.comboCount)) * RSCALE
        /\ state.lastAbsorbTime = tick.c.now
        /\ state.comboTimerRemaining = COMBO_WINDOW_MS

\* the NORMAL orbs the tick's loop left, as the spawn test counts them
LiveNormalAfterLoop ==
    Cardinality({i \in 1..Len(LoopEnd(tick.s, tick.c).nextOrbs) :
                    LoopEnd(tick.s, tick.c).nextOrbs[i].orbType = "NORMAL"})

\* the spawn test of the tick: below the target density of the wave the tick
\* plays, and the cooldown over
SpawnWanted ==
    /\ LiveNormalAfterLoop < getWaveConfig(LoopInput.currentWave).targetDensity
    /\ tick.c.now - tick.c.lastSpawnTime > WAVE_SPAWN_COOLDOWN

\* C26: a PLAYING tick spawns at most one orb, and spawns exactly when the
\* NORMAL orbs left by the loop are fewer than the wave's target density and
\* more than WAVE_SPAWN_COOLDOWN has passed since the previous spawn, so that
\* two spawns are more than 200 ms apart; the spawned orb is WILD with
\* captureProgress 0 and an empty trail.
SpawnExactlyWhenDue ==
    PlayingTick =>
        /\ Cardinality(Spawned) <= 1
        /\ Spawned # {} <=> SpawnWanted
        /\ Spawned # {} =>
               /\ lastSpawnTime = tick.c.now
               /\ lastSpawnTime - tick.c.lastSpawnTime > WAVE_SPAWN_COOLDOWN
        /\ Spawned = {} => lastSpawnTime = tick.c.lastSpawnTime
        /\ \A i \in Spawned :
               /\ state.orbs[i].status = "WILD"
               /\ state.orbs[i].captureProgress = 0
               /\ state.orbs[i].trail = << >>

\* C27: updatePhysics called in phase PLAYING returns phase PLAYING or RESULT,
\* never VICTORY, INIT or START, however large the radius: a well as large as
\* VICTORY_RADIUS reaches past the walls and ends the round in RESULT.
NeverVictory ==
    /\ PlayingTick => state.phase \in {"PLAYING", "RESULT"}
    /\ Stepped => state.phase # "VICTORY"
    /\ (state.phase = "PLAYING" /\ \A i \in 1..Len(state.orbs) : state.orbs[i].status # "GOLD") =>
         \A radius \in {VICTORY_RADIUS * RSCALE, (VICTORY_RADIUS + 1) * RSCALE} :
             LET s == [state EXCEPT !.blackholeRadius = radius]
                 c == Inputs(DT_CAP_MS, canvas, lastTimeRef + DT_CAP_MS, lastSpawnTime,
                             NormalDraw, nextId)
             IN  updatePhysics(s, c).phase = "RESULT"

\* a round went on through a tick and another ended in one
PlayedOnAndEnded ==
    /\ PlayingTick
    /\ state.phase = "RESULT"
    /\ state.deathReason = "WALL"
    /\ state.blackholeRadius > MIN_RADIUS * RSCALE

\* C28: every PLAYING tick returns elapsedTime raised by dt, the tick that ends
\* the round by WALL or by BOMB included.
ElapsedAdvances ==
    PlayingTick => state.elapsedTime = tick.s.elapsedTime + tick.c.dt

\* C29: no returned snapshot holds an orb whose position or velocity is NaN,
\* even when the hand sample that placed the well was malformed.
OrbsStayFinite ==
    \A i \in 1..Len(state.orbs) : ~state.orbs[i].pos.nan /\ ~state.orbs[i].vel.nan

\* what a call decides about the game: everything it returns but the particles
\* and the screen flash, and the spawn it made
Gameplay(call) ==
    [rest |-> [call.state EXCEPT !.particles = << >>, !.screenFlash = 0],
     spawned |-> call.spawned,
     lastSpawnTime |-> call.lastSpawnTime]

\* other particle collections the tick's snapshot could hold: none, and its own
\* followed by a fresh burst and a burst on its last frame
OtherParticles ==
    LET fresh == createBurst(Vec(10, 10), 15, NormalDraw)
        dying == <<[createBurst(tick.s.hole.pos, 40, BombDraw)[1] EXCEPT !.life = 1]>>
    IN  {<< >>, tick.s.particles \o fresh \o dying}

\* C30: two PLAYING snapshots that differ in their particles only, stepped with
\* the same dt, bounds, clock and draws, return the same phase, deathReason,
\* orbs, radius, wave fields, combo fields and elapsedTime, and spawn alike.
ParticlesAreDecoration ==
    PlayingTick =>
        \A ps \in OtherParticles :
            Gameplay(PhysicsCall([tick.s EXCEPT !.particles = ps], tick.c))
                = Gameplay(PhysicsCall(tick.s, tick.c))

\* an absorption, with its burst, in a snapshot that held particles already
AbsorbedAmongParticles ==
    /\ PlayingTick
    /\ tick.s.particles # << >>
    /\ Len(AbsorbedNow) > 0
    /\ Len(state.particles) > Len(tick.s.particles)
    /\ state.phase = "PLAYING"

\* the particles of the tick's input that are alive after losing dt / maxLife
AgedSurvivors ==
    SelectSeq([i \in 1..Len(tick.s.particles) |-> AgeParticle(tick.s.particles[i], tick.c.dt)],
              LAMBDA p : p.life > 0)

\* C31: every particle of a returned snapshot has life in (0, 1]; a PLAYING
\* tick takes dt / maxLife off the life of each particle it was given and
\* returns those still above 0, in order, before any new ones, however the
\* tick ends.
ParticlesAlive ==
    /\ Stepped =>
         \A i \in 1..Len(state.particles) :
             state.particles[i].life > 0 /\ state.particles[i].life <= LSCALE
    /\ PlayingTick =>
         /\ Len(state.particles) >= Len(AgedSurvivors)
         /\ \A j \in 1..Len(AgedSurvivors) :
                state.particles[j].life = AgedSurvivors[j].life

\* C32: comboCount is not clamped (it goes past 5), while comboMultiplier is
\* always COMBO_MULTIPLIERS[min(comboCount, 5)], getComboGrowthBonus(c) is
\* COMBO_GROWTH_BONUS[min(c, 5)] for every c >= 0, and both tables are
\* non-decreasing.
ComboTablesClamped ==
    /\ state.comboCount >= 0
    /\ state.comboMultiplier = COMBO_MULTIPLIERS[Min(state.comboCount, 5) + 1]
    /\ \A c \in 0..(state.comboCount + 6) :
           getComboGrowthBonus(c) = COMBO_GROWTH_BONUS[Min(c, 5) + 1]
    /\ \A i \in 1..5 :
           /\ COMBO_MULTIPLIERS[i] <= COMBO_MULTIPLIERS[i + 1]
           /\ COMBO_GROWTH_BONUS[i] <= COMBO_GROWTH_BONUS[i + 1]
    /\ (/\ PlayingTick /\ ~BombAbsorbed /\ Len(AbsorbedNow) > 0
        /\ tick.c.now - LoopInput.lastComboTime <= COMBO_WINDOW_MS) =>
           state.comboCount = LoopInput.comboCount + Len(AbsorbedNow)

\* an absorption took the combo past the last index of the tables
ComboPastTables ==
    /\ PlayingTick
    /\ Len(AbsorbedNow) > 0
    /\ state.comboCount > 5
    /\ state.comboMultiplier = COMBO_MULTIPLIERS[6]

\* C33: the dt the loop hands to updatePhysics lies in [0, 0.05] s on every
\* frame, the first one (previous timestamp 0) and the one after a long stall
\* included, so a tick advances elapsedTime and runs the combo timer and the
\* wave timer down by at most 50 ms.
DtCapped ==
    /\ Stepped => (tick.c.dt >= 0 /\ tick.c.dt <= DT_CAP_MS)
    /\ PlayingTick =>
         /\ state.elapsedTime - tick.s.elapsedTime >= 0
         /\ state.elapsedTime - tick.s.elapsedTime <= DT_CAP_MS
         /\ tick.s.comboTimerRemaining - state.comboTimerRemaining <= DT_CAP_MS
         /\ tick.s.waveTransitionTimer - state.waveTransitionTimer <= DT_CAP_MS

\* the frame after a stall of more than a second: the tick advanced the round
\* by the cap
StalledFrame ==
    /\ PlayingTick
    /\ frames = 1
    /\ lastTimeRef - T0 > 1000
    /\ tick.c.dt = DT_CAP_MS
    /\ state.elapsedTime = tick.s.elapsedTime + DT_CAP_MS

\* C34: in every state each orb has captureProgress 0 if WILD, 1 if GOLD, and
\* in [0, 1) if CAPTURING.
StatusMatchesProgress ==
    \A i \in 1..Len(state.orbs) :
        LET o == state.orbs[i]
        IN  /\ o.status \in {"WILD", "CAPTURING", "GOLD"}
            /\ o.status = "WILD" => o.captureProgress = 0
            /\ o.status = "GOLD" => o.captureProgress = PSCALE
            /\ o.status = "CAPTURING" => (o.captureProgress >= 0 /\ o.captureProgress < PSCALE)

\* a tick turned an orb GOLD whose progress would have passed 1
TamedAtTheTop ==
    /\ PlayingTick
    /\ \E i \in 1..Len(tick.s.orbs) :
         /\ tick.s.orbs[i].status = "CAPTURING"
         /\ ProgressSum(i) > PSCALE
         /\ After(tick.s.orbs[i]).status = "GOLD"
         /\ After(tick.s.orbs[i]).captureProgress = PSCALE

\* C35: a PLAYING tick drops an orb from the list only if the orb was GOLD and
\* the tick absorbed it; every other orb is returned, in order, with its id,
\* kind and radius, whatever walls it touched, status it took or level the
\* round reached; so while the round stays PLAYING the BOMB orbs do not get
\* fewer.
OrbsLeaveOnlyAbsorbed ==
    PlayingTick =>
        /\ \A i \in 1..Len(tick.s.orbs) :
               LET o == tick.s.orbs[i]
               IN  IF o.id \in Gone
                   THEN /\ o.status = "GOLD"
                        /\ \E j \in 1..Len(AbsorbedNow) : AbsorbedNow[j] = o.id
                        /\ InsideAbsorb(DistSqAt(i), state.blackholeRadius)
                   ELSE /\ After(o).orbType = o.orbType
                        /\ After(o).radius = o.radius
        /\ \A i, j \in 1..Len(tick.s.orbs) :
               (i < j /\ tick.s.orbs[i].id \notin Gone /\ tick.s.orbs[j].id \notin Gone) =>
                   \E k, l \in 1..Len(state.orbs) :
                       /\ k < l
                       /\ state.orbs[k].id = tick.s.orbs[i].id
                       /\ state.orbs[l].id = tick.s.orbs[j].id
        /\ state.phase = "PLAYING" =>
               Cardinality(BombOrbs(state)) >= Cardinality(BombOrbs(tick.s))

\* a BOMB orb hit the right wall in a tick and is still in the list
BombSurvivedWall ==
    /\ PlayingTick
    /\ state.phase = "PLAYING"
    /\ \E i \in 1..Len(tick.s.orbs) :
         LET o == tick.s.orbs[i]
         IN  /\ o.orbType = "BOMB"
             /\ Unbounced(o).pos.x > tick.c.width - o.radius
             /\ o.id \in IdsOf(state.orbs)
             /\ After(o).orbType = "BOMB"

\* the orb loop of the tick stopped at a BOMB
BombTick == PlayingTick /\ LoopEnd(tick.s, tick.c).bomb

\* what the tick's NORMAL absorptions make of the combo count the loop started with
ComboAfterAbsorbing ==
    IF Len(AbsorbedNow) = 0 THEN LoopInput.comboCount
    ELSE IF \/ LoopInput.lastComboTime = 0
            \/ tick.c.absorbNow - LoopInput.lastComboTime <= COMBO_WINDOW_MS
         THEN LoopInput.comboCount + Len(AbsorbedNow)
         ELSE Len(AbsorbedNow)

BombTickKeepsOrbsAndWell ==
    /\ state.phase = "RESULT"
    /\ state.deathReason = "BOMB"
    /\ state.orbs = tick.s.orbs
    /\ \A j \in 1..Len(AbsorbedNow) : AbsorbedNow[j] \in IdsOf(state.orbs)
    /\ \E i \in 1..Len(state.orbs) :
           state.orbs[i].orbType = "BOMB" /\ state.orbs[i].status = "GOLD"
    /\ state.blackholeRadius = tick.s.blackholeRadius
    /\ state.lastAbsorbTime = tick.s.lastAbsorbTime
    /\ state.comboCount = ComboAfterAbsorbing

DeathReasonOf(s) ==
    /\ s.deathReason \in {"NONE", "WALL", "BOMB"}
    /\ s.deathReason \in {"WALL", "BOMB"} <=> s.phase = "RESULT"

\* C37: in the published state, and in the state each frame hands to
\* updatePhysics, deathReason is WALL or BOMB exactly when phase is RESULT, and
\* unset in INIT, START and PLAYING, after a restart from RESULT too.
DeathReasonOnlyInResult ==
    /\ DeathReasonOf(state)
    /\ Stepped => DeathReasonOf(tick.s)

\* a pinch on the result screen: the frame publishes START with no deathReason
RestartClearedDeathReason ==
    /\ Stepped
    /\ tick.prev.phase = "RESULT"
    /\ tick.hand.hasHand /\ tick.hand.isPinched
    /\ state.phase = "START"
    /\ state.deathReason = "NONE"

\* C38: currentWave is at least 1 and orbsRequiredForLevel is
\* getWaveConfig(currentWave).orbsRequired = 10 + 5 * (currentWave - 1) in every
\* state; a PLAYING tick leaves currentWave alone or adds 1, and adds 1 exactly
\* when the count it found had reached the requirement; the level-up sets the
\* count to 0 even when the count had run past the requirement, so the orbs
\* counted after it are only those the same tick absorbs.
WaveCountsUp ==
    /\ state.currentWave >= 1
    /\ state.orbsRequiredForLevel = getWaveConfig(state.currentWave).orbsRequired
    /\ state.orbsRequiredForLevel = 10 + 5 * (state.currentWave - 1)
    /\ PlayingTick =>
         /\ state.currentWave \in {tick.s.currentWave, tick.s.currentWave + 1}
         /\ state.currentWave = tick.s.currentWave + 1
                <=> tick.s.orbsAbsorbedInWave >= tick.s.orbsRequiredForLevel
         /\ tick.s.orbsAbsorbedInWave >= tick.s.orbsRequiredForLevel =>
                /\ LoopInput.orbsAbsorbedInWave = 0
                /\ state.orbsAbsorbedInWave
                       = IF LoopEnd(tick.s, tick.c).bomb THEN 0 ELSE Len(AbsorbedNow)

\* two absorptions in one tick took the count past the requirement, and the
\* next tick started the new wave at 0
SurplusDropped ==
    /\ PlayingTick
    /\ tick.s.orbsAbsorbedInWave > tick.s.orbsRequiredForLevel
    /\ state.currentWave = tick.s.currentWave + 1
    /\ state.orbsAbsorbedInWave = 0

\* the ids the loop of the tick absorbed as NORMAL orbs
AbsorbedIdSet == {AbsorbedNow[j] : j \in 1..Len(AbsorbedNow)}

\* the tick's loop run on the same snapshot with the well in the other mode
OtherModeLoop ==
    LoopEnd([tick.s EXCEPT !.hole.mode = IF @ = "REPEL" THEN "ATTRACT" ELSE "REPEL"],
            tick.c)

\* C39: in a PLAYING tick, in ATTRACT and in REPEL alike, an orb that starts the
\* tick GOLD and inside 0.9 x the radius is absorbed, unless the loop has ended
\* at a bomb before it, and a BOMB among them ends the round; the same orbs
\* would be absorbed with the well in the other mode; an orb that starts the
\* tick WILD or CAPTURING is not absorbed in it, however close it is and even
\* if the tick turns it GOLD.
AbsorbedWhateverMode ==
    PlayingTick =>
        LET ids == AbsorbedIdSet
            left == IdsOf(state.orbs)
            other == OtherModeLoop
        IN  /\ \A i \in 1..Len(tick.s.orbs) :
                 LET o == tick.s.orbs[i]
                 IN  /\ (/\ o.status = "GOLD"
                         /\ InsideAbsorb(DistSqAt(i), tick.s.blackholeRadius)) =>
                            IF o.orbType = "BOMB"
                            THEN state.phase = "RESULT" /\ state.deathReason = "BOMB"
                            ELSE o.id \in ids \/ state.deathReason = "BOMB"
                     /\ o.status # "GOLD" => (o.id \notin ids /\ o.id \in left)
            /\ other.absorbedIds = AbsorbedNow
            /\ other.bomb = (state.deathReason = "BOMB")

\* the player pinched on the tick (REPEL) and the GOLD orb inside the well was
\* absorbed all the same
AbsorbedWhileRepelling ==
    /\ PlayingTick
    /\ tick.hand.hasHand /\ tick.hand.isPinched
    /\ tick.s.hole.mode = "REPEL"
    /\ ~LoopEnd(tick.s, tick.c).bomb
    /\ AbsorbedIdSet # {}
    /\ AbsorbedIdSet \cap IdsOf(state.orbs) = {}

\* the radius the tick's one absorption added
GrowthOfTheTick == state.blackholeRadius - LoopInput.blackholeRadius

\* C40: a tick that absorbs one NORMAL orb (and no bomb) grows the radius by
\* GROWTH_PER_ORB plus the bonus of the combo count the loop found, the count
\* before onOrbAbsorbed counted the orb or restarted the combo; the orb is the
\* k-th of its chain for k the combo count after it, and the growth is
\* GROWTH_PER_ORB + COMBO_GROWTH_BONUS[min(k - 1, 5)]: exactly 1 for the first
\* two orbs of a chain.
GrowthByChainPosition ==
    (PlayingTick /\ state.deathReason # "BOMB" /\ Len(AbsorbedNow) = 1) =>
        /\ GrowthOfTheTick
               = (GROWTH_PER_ORB + getComboGrowthBonus(LoopInput.comboCount)) * RSCALE
        /\ GrowthOfTheTick
               = (GROWTH_PER_ORB
                    + COMBO_GROWTH_BONUS[Min(state.comboCount - 1, 5) + 1]) * RSCALE
        /\ state.comboCount <= 2 => GrowthOfTheTick = GROWTH_PER_ORB * RSCALE

=============================================================================
